---- MODULE Spec2Model ----
(***************************************************************************)
(* A model of the WebGL2-compute tensor backend: the host-side execution   *)
(* coordinator (tensorMap, binaryCache, compileAndRun), the shader         *)
(* preprocessor (makeShader, makeShaderKey) and the tiled matrix-multiply  *)
(* kernel, as state machines over small bounded inputs.                    *)
(*                                                                         *)
(* Strings that the code builds by interpolation are modelled as sequences *)
(* of string tokens: a number is rendered digit by digit (ToStr), a list   *)
(* is joined with "," (Join), and concatenation is \o, so that two keys or *)
(* two sources are equal in the model exactly when the texts are equal.    *)
(*                                                                         *)
(* The device is modelled in issue order: a GL command takes effect when   *)
(* it is issued, and getBufferSubData is a blocking read-back.  In the     *)
(* specification Spec buffer contents are kept symbolically (which command *)
(* produced them, from which inputs); the specifications SpecElem and      *)
(* SpecMatMul execute the kernels thread by thread on numbers.             *)
(***************************************************************************)
EXTENDS Integers, Sequences, FiniteSets, TLC

VARIABLES
    tensors,      \* frontend Tensor objects: dataId -> [shape, dtype] or NoTensor
    tensorMap,    \* WebGL2ComputeBackend.tensorMap: dataId -> TensorInfo or NoInfo
    glBuffers,    \* device storage buffers, one handle per registered dataId
    ssbBinding,   \* the generic SHADER_STORAGE_BUFFER binding point (0 = none)
    uniformLive,  \* uniform buffers created by makeUniforms and not deleted
    binaryCache,  \* WebGL2ComputeBackend.binaryCache: key -> binary
    compiled,     \* history: key -> number of binaries compileProgram returned
    failedKeys,   \* history: the keys for which compileProgram has thrown
    lastOp,       \* observation of the last backend call and its outcome
    calls,        \* number of backend calls issued so far
    kern          \* state of the kernel executions (SpecElem, SpecMatMul)

vars == <<tensors, tensorMap, glBuffers, ssbBinding, uniformLive,
          binaryCache, compiled, failedKeys, lastOp, calls, kern>>

backendVars == <<tensors, tensorMap, glBuffers, ssbBinding, uniformLive,
                 binaryCache, compiled, failedKeys, lastOp, calls>>

(***************************************************************************)
(* Bounds of the model.                                                    *)
(***************************************************************************)
MaxId == 3

\* Number of backend calls in one session.
MaxCalls == 3

DataIds == 1..MaxId

DTypes == {"float32", "int32"}

\* Tensor shapes the frontend hands to the backend in Spec (rank 3, batch 1).
Shapes == {<<1, 4, 1>>, <<1, 4, 4>>}

\* Element values the frontend writes in Spec.
Vals == {1, 2}

\* Values of the MATMUL_WORK_PER_THREAD flag.
WorkPerThreadFlags == {0, 4}

(***************************************************************************)
(* util.sizeFromShape, util.bytesPerElement (tfjs-core, used by register). *)
(***************************************************************************)
RECURSIVE sizeFromShape(_)
sizeFromShape(shape) ==
    IF Len(shape) = 0 THEN 1 ELSE Head(shape) * sizeFromShape(Tail(shape))

bytesPerElement(dtype) ==
    IF dtype \in {"float32", "int32"} THEN 4
    ELSE IF dtype = "complex64" THEN 8
    ELSE 1

CeilDiv(a, b) == (a + b - 1) \div b

(***************************************************************************)
(* Text: Number.toString and Array.prototype.join(',').                    *)
(***************************************************************************)
DigitChars == <<"0", "1", "2", "3", "4", "5", "6", "7", "8", "9">>

RECURSIVE ToStr(_)
ToStr(n) ==
    IF n < 10 THEN <<DigitChars[n + 1]>>
    ELSE ToStr(n \div 10) \o <<DigitChars[(n % 10) + 1]>>

RECURSIVE Join(_)
Join(arr) ==
    IF Len(arr) = 0 THEN <<>>
    ELSE IF Len(arr) = 1 THEN ToStr(arr[1])
    ELSE ToStr(arr[1]) \o <<",">> \o Join(Tail(arr))

(***************************************************************************)
(* webgl2compute_util: arrayProduct and computeDispatch.  arrayProduct     *)
(* throws on an empty array; the layouts used below have no empty axis.    *)
(***************************************************************************)
RECURSIVE arrayProduct(_)
arrayProduct(arr) ==
    IF Len(arr) = 1 THEN arr[1] ELSE arr[1] * arrayProduct(Tail(arr))

LayoutDims(axis, outputShape) ==
    [i \in 1..Len(axis) |-> outputShape[axis[i] + 1]]

computeDispatch(layout, outputShape, workGroupSize, elementsPerThread) ==
    << CeilDiv(arrayProduct(LayoutDims(layout.x, outputShape)),
               workGroupSize[1] * elementsPerThread[1]),
       CeilDiv(arrayProduct(LayoutDims(layout.y, outputShape)),
               workGroupSize[2] * elementsPerThread[2]),
       CeilDiv(arrayProduct(LayoutDims(layout.z, outputShape)),
               workGroupSize[3] * elementsPerThread[3]) >>

(***************************************************************************)
(* Program catalog: the descriptors batchMatMul can build.                 *)
(* userCode is a token sequence; only the interpolated parts vary.         *)
(***************************************************************************)
NoLayout == [x |-> <<>>, y |-> <<>>, z |-> <<>>]

MatMulProgram(outputShape) ==
    LET layout == [x |-> <<1>>, y |-> <<2>>, z |-> <<0>>]
        wgs == <<16, 16, 1>>
    IN  [ name |-> "MatMulProgram",
          outputShape |-> outputShape,
          hasLayout |-> TRUE,
          dispatchLayout |-> layout,
          workGroupSize |-> wgs,
          dispatch |-> computeDispatch(layout, outputShape, wgs, <<1, 1, 1>>),
          variableNames |-> <<"A", "B">>,
          uniforms |-> <<>>,
          isPacked |-> FALSE,
          userCode |-> <<"\n", "makeMatMulSource()", "mm_readA", "mm_readB",
                         "mm_write", "main{mm_matMul(aShape[1],aShape[2],bShape[2])}">> ]

MatMul8x8And4x16Program(outputShape) ==
    LET layout == [x |-> <<2>>, y |-> <<1>>, z |-> <<0>>]
        wgs == <<16, 4, 1>>
    IN  [ name |-> "MatMul8x8And4x16Program",
          outputShape |-> outputShape,
          hasLayout |-> TRUE,
          dispatchLayout |-> layout,
          workGroupSize |-> wgs,
          dispatch |-> computeDispatch(layout, outputShape, wgs, <<8, 8, 1>>),
          variableNames |-> <<"A", "B">>,
          uniforms |-> <<>>,
          isPacked |-> TRUE,
          userCode |-> <<"\n", "TILE_M=32;TILE_N=128;TILE_K=64;VEC_SIZE=4;ROWS_PER_WI=8",
                         "mm_readA", "mm_readB", "mm_write", "main{8x8 4x16}">> ]

\* This revision of MatMulPackedProgram keeps its dispatch layout in a local
\* constant: the descriptor has no dispatchLayout field.
MatMulPackedProgram(outputShape, workPerThread) ==
    LET layout == [x |-> <<1>>, y |-> <<2>>, z |-> <<0>>]
        wgs == <<16, 16, 1>>
    IN  [ name |-> "MatMulPackedProgram",
          outputShape |-> outputShape,
          hasLayout |-> FALSE,
          dispatchLayout |-> NoLayout,
          workGroupSize |-> wgs,
          dispatch |-> computeDispatch(layout, outputShape, wgs,
                                       <<workPerThread, workPerThread, 1>>),
          variableNames |-> <<"A", "B">>,
          uniforms |-> <<"uint dimAOuter, dimInner, dimBOuter, batch;">>,
          isPacked |-> FALSE,
          userCode |-> <<"\n", "makeMatMulPackedSource(">> \o ToStr(workPerThread)
                         \o <<")", "mm_readA", "mm_readB", "mm_write",
                              "main{mm_matMul(dimAOuter,dimInner,dimBOuter)}">> ]

(***************************************************************************)
(* kernels/webgl2compute_program.ts: makeShaderKey.                        *)
(***************************************************************************)
makeShaderKey(program, ranks) ==
    Join(program.workGroupSize) \o Join(ranks) \o program.userCode

(***************************************************************************)
(* shader_preprocessor: the text makeShader generates, as tokens.          *)
(***************************************************************************)
RECURSIVE Flatten(_)
Flatten(seqs) ==
    IF Len(seqs) = 0 THEN <<>> ELSE Head(seqs) \o Flatten(Tail(seqs))

Ranks(shapes) == [i \in 1..Len(shapes) |-> Len(shapes[i])]

toLowerCase(name) ==
    IF name = "A" THEN "a" ELSE IF name = "B" THEN "b"
    ELSE IF name = "W" THEN "w" ELSE name

getCoordsDataType(rank) ==
    IF rank <= 1 THEN "int"
    ELSE IF rank = 2 THEN "ivec2"
    ELSE IF rank = 3 THEN "ivec3"
    ELSE IF rank = 4 THEN "ivec4"
    ELSE "throw: GPU for rank is not yet supported"

mapToGlslTypes(type, isPacked) ==
    IF type = "float32" THEN (IF isPacked THEN "vec4" ELSE "float")
    ELSE IF type = "int32" THEN "int"
    ELSE type

\* tfjs-core broadcast_util.getBroadcastDims: the (0-based) dimensions of
\* inShape that have size 1 where the aligned output dimension is larger.
getBroadcastDims(inShape, outShape) ==
    LET inRank == Len(inShape)
        outRank == Len(outShape)
        Or1(v) == IF v = 0 THEN 1 ELSE v
        outAt(dim) == IF outRank - (inRank - dim) >= 1
                      THEN Or1(outShape[outRank - (inRank - dim)]) ELSE 1
        isBroadcast(dim) == outAt(dim) > 1 /\ Or1(inShape[dim]) = 1
    IN  SelectSeq([d \in 1..inRank |-> d], isBroadcast)

getSetOutputSnippet(outRank, outBufferType) ==
    << "void setOutput(int flatIndex, float value) { result[flatIndex] =",
       IF mapToGlslTypes(outBufferType, FALSE) = "int" THEN "int(value)" ELSE "value",
       "void setOutput(int flatIndex, int value) { result[flatIndex] =",
       IF mapToGlslTypes(outBufferType, FALSE) = "float" THEN "float(value)" ELSE "value" >>
    \o (IF outRank >= 2
        THEN <<"void setOutput(d0..d", getCoordsDataType(outRank)>> \o ToStr(outRank)
        ELSE <<>>)

getSamplerFromInInfo(inInfo) ==
    LET rank == Len(inInfo.shape)
    IN  IF rank < 1
        THEN <<"float get", inInfo.name, "() { return float(x[0]); }">>
        ELSE <<"float get", inInfo.name, "(d0..d">> \o ToStr(rank)
             \o <<getCoordsDataType(rank), toLowerCase(inInfo.name), "Shape">>

getSamplerAtOutputCoords(inInfo, outShape) ==
    LET inRank == Len(inInfo.shape)
        outRank == Len(outShape)
        broadcastDims == getBroadcastDims(inInfo.shape, outShape)
        rankDiff == outRank - inRank
        \* broadcastDims holds 1-based dimensions here: d - 1 is the code's d
        coordsSnippet ==
            IF inRank > 0
            THEN IF outRank < 2 /\ Len(broadcastDims) >= 1
                 THEN <<"coords = 0.;">>
                 ELSE Flatten([k \in 1..Len(broadcastDims) |->
                         <<"coords[">> \o ToStr(broadcastDims[k] - 1 + rankDiff)
                            \o <<"] = 0;">>])
            ELSE <<>>
        unpackedCoordsSnippet ==
            IF outRank < 2 /\ inRank > 0 THEN <<"coords">>
            ELSE IF outRank > 1
                 THEN <<getCoordsDataType(inRank), "(">>
                      \o Flatten([i \in 1..inRank |->
                            <<"coords[">> \o ToStr(i - 1 + rankDiff) \o <<"]">>])
                      \o <<")">>
                 ELSE <<"coords">>
    IN  <<"float get", inInfo.name, "AtOutCoords() {", getCoordsDataType(outRank),
          "coords = getOutputCoords();">>
        \o coordsSnippet
        \o <<"float result = float(x[getFlatIndex(">> \o unpackedCoordsSnippet
        \o <<toLowerCase(inInfo.name), "Shape)]); return result; }">>

getInputSamplingSnippet(inInfo, outShape) ==
    getSamplerFromInInfo(inInfo)
    \o (IF Len(inInfo.shape) <= Len(outShape)
        THEN getSamplerAtOutputCoords(inInfo, outShape) ELSE <<>>)

\* The rank generateGetOutputCoords returns: the number of laid-out dimensions.
dispatchLayoutRank(dispatchLayout) ==
    Len(dispatchLayout.x) + Len(dispatchLayout.y) + Len(dispatchLayout.z)

\* The text of getOutputCoords(): for every non-empty axis i the dimensions it
\* gathers from gl_GlobalInvocationID[i] (the stride arithmetic is a function
\* of that list), then the constructor of the coordinate vector.
generateGetOutputCoords(dispatchLayout) ==
    LET dims == <<dispatchLayout.x, dispatchLayout.y, dispatchLayout.z>>
        rank == dispatchLayoutRank(dispatchLayout)
        gather(i) == IF Len(dims[i]) = 0 THEN <<>>
                     ELSE <<"gl_GlobalInvocationID[">> \o ToStr(i - 1) \o <<"] ->">>
                          \o Join(dims[i]) \o <<";">>
    IN  <<getCoordsDataType(rank), "getOutputCoords() {">>
        \o Flatten([i \in 1..3 |-> gather(i)])
        \o <<"return d0..d">> \o ToStr(rank) \o <<"}">>

\* makeShader throws where the code dereferences an absent dispatchLayout or
\* asks getCoordsDataType for a rank above 4.
makeShaderThrows(inputInfo, outputData, program) ==
    \/ ~program.hasLayout
    \/ \E i \in 1..Len(program.variableNames) : Len(inputInfo[i].shape) > 4
    \/ Len(outputData.shape) > 4
    \/ dispatchLayoutRank(program.dispatchLayout) > 4

makeShader(inputInfo, outputData, program) ==
    LET n == Len(program.variableNames)
        layoutSnippet == <<"layout(local_size =">> \o Join(program.workGroupSize)
                         \o <<") in;">>
        inputDecl(i) ==
            <<"layout(std430, binding =">> \o ToStr(i - 1)
            \o <<") readonly buffer ssb", program.variableNames[i],
                 mapToGlslTypes(inputInfo[i].dtype, program.isPacked), "[];">>
        outputDecl ==
            <<"layout(std430, binding =">> \o ToStr(n)
            \o <<") writeonly buffer ssbOut",
                 IF program.isPacked THEN "vec4"
                 ELSE mapToGlslTypes(outputData.dtype, FALSE), "result[];">>
        uniformDeclaration ==
            Flatten([i \in 1..n |->
                <<getCoordsDataType(Len(inputInfo[i].shape)),
                  toLowerCase(program.variableNames[i]), "Shape;">>])
            \o <<getCoordsDataType(Len(outputData.shape)), "outShape;">>
            \o program.uniforms
        prefixSnippets ==
            layoutSnippet \o Flatten([i \in 1..n |-> inputDecl(i)]) \o outputDecl
            \o <<"layout(std140, binding = 0) uniform Uniforms {">>
            \o uniformDeclaration \o <<"};">>
        getOutputCoords == generateGetOutputCoords(program.dispatchLayout)
        inputSamplingSnippet ==
            Flatten([i \in 1..Len(inputInfo) |->
                getInputSamplingSnippet(inputInfo[i], outputData.shape)])
    IN  IF program.isPacked
        THEN <<"SHADER_PREFIX">> \o prefixSnippets \o <<"SAMPLING_SNIPPETS">>
             \o getOutputCoords \o inputSamplingSnippet \o program.userCode
        ELSE <<"SHADER_PREFIX">> \o prefixSnippets \o <<"SAMPLING_SNIPPETS">>
             \o getOutputCoords
             \o getSetOutputSnippet(Len(outputData.shape), outputData.dtype)
             \o (IF dispatchLayoutRank(program.dispatchLayout) = Len(outputData.shape)
                 THEN inputSamplingSnippet ELSE <<>>)
             \o program.userCode

(***************************************************************************)
(* State of the backend and of the GL context it drives.                   *)
(***************************************************************************)
NoTensor == [shape |-> <<>>, dtype |-> "none"]

NoInfo == [has |-> FALSE, byteSize |-> 0, values |-> <<>>, id |-> -1,
           buffer |-> 0, dtype |-> "none"]

\* Buffer contents, symbolically: what produced them and from what.
NoData == [by |-> "none", vals |-> <<>>, ins |-> <<>>, bin |-> <<>>]

ZeroData == [by |-> "zeros", vals |-> <<>>, ins |-> <<>>, bin |-> <<>>]

WriteData(values, prev, whole) ==
    [by |-> "write", vals |-> values,
     ins |-> IF whole THEN <<>> ELSE <<prev>>, bin |-> <<>>]

PrefixData(prev) == [by |-> "prefix", vals |-> <<>>, ins |-> <<prev>>, bin |-> <<>>]

DispatchData(key, ins) == [by |-> "dispatch", vals |-> <<>>, ins |-> ins, bin |-> key]

NoBuffer == [state |-> "none", size |-> 0, data |-> NoData]

NoKeys == {}

IdleKern == [phase |-> "idle"]

NoProgram ==
    [name |-> "none", outputShape |-> <<>>, hasLayout |-> FALSE,
     dispatchLayout |-> NoLayout, workGroupSize |-> <<>>, dispatch |-> <<>>,
     variableNames |-> <<>>, uniforms |-> <<>>, isPacked |-> FALSE,
     userCode |-> <<>>]

\* What is observed of one backend call: its arguments (id, shape, dtype,
\* values), the error it threw ("none" when it returned), the data it
\* returned, and what it did on the way (buffers created, a buffer bound,
\* compileProgram called, a dispatch issued, a deleted buffer handed to GL).
BaseOp(op, id) ==
    [op |-> op, id |-> id, shape |-> <<>>, dtype |-> "none", values |-> <<>>,
     err |-> "none", data |-> NoData, len |-> 0,
     program |-> NoProgram, ranks |-> <<>>, key |-> <<>>, unregistered |-> FALSE,
     hit |-> FALSE, compileCalled |-> FALSE, dispatched |-> FALSE,
     source |-> <<>>, created |-> {}, bound |-> FALSE, onReleased |-> FALSE]

BackendInit ==
    /\ tensors = [id \in DataIds |-> NoTensor]
    /\ tensorMap = [id \in DataIds |-> NoInfo]
    /\ glBuffers = [h \in DataIds |-> NoBuffer]
    /\ ssbBinding = [target |-> 0, base |-> <<0, 0, 0>>]
    /\ uniformLive = 0
    /\ binaryCache = [k \in NoKeys |-> <<>>]
    /\ compiled = [k \in NoKeys |-> 0]
    /\ failedKeys = {}
    /\ lastOp = BaseOp("init", 0)
    /\ calls = 0

Init ==
    /\ BackendInit
    /\ kern = IdleKern

(***************************************************************************)
(* GL commands on the SHADER_STORAGE_BUFFER target.  Binding a deleted     *)
(* buffer is an INVALID_OPERATION that leaves the binding as it was;       *)
(* deleting a buffer resets the bindings that name it.                     *)
(***************************************************************************)
\* Data ids are opaque objects the frontend creates; the model hands them out
\* in increasing order.
FreshIds == {id \in DataIds : tensors[id] = NoTensor /\ ~tensorMap[id].has}

IsNextFresh(id) == id \in FreshIds /\ \A other \in FreshIds : id <= other

IsLive(bufs, h) == h \in DataIds /\ bufs[h].state = "live"

bindBuffer(bufs, binding, h) ==
    IF IsLive(bufs, h) THEN [binding EXCEPT !.target = h] ELSE binding

bindBufferBase(bufs, binding, index, h) ==
    IF IsLive(bufs, h)
    THEN [binding EXCEPT !.target = h, !.base[index + 1] = h]
    ELSE binding

deleteBuffer(bufs, h) ==
    IF IsLive(bufs, h)
    THEN [bufs EXCEPT ![h] = [state |-> "deleted", size |-> 0, data |-> NoData]]
    ELSE bufs

unbindDeleted(bufs, binding, h) ==
    IF IsLive(bufs, h)
    THEN [target |-> IF binding.target = h THEN 0 ELSE binding.target,
          base |-> [i \in 1..3 |-> IF binding.base[i] = h THEN 0 ELSE binding.base[i]]]
    ELSE binding

\* bufferSubData(SHADER_STORAGE_BUFFER, 0, values) with 4-byte elements.
bufferSubData(bufs, binding, values) ==
    LET t == binding.target
    IN  IF t = 0 \/ 4 * Len(values) > bufs[t].size THEN bufs
        ELSE [bufs EXCEPT ![t].data =
                 WriteData(values, bufs[t].data, 4 * Len(values) = bufs[t].size)]

\* The mutant of getBufferSubData: the read-back does not wait for the
\* device, the client array is returned as allocated.
getBufferSubDataNoWait(bufs, binding, byteLength) == ZeroData

\* getBufferSubData(SHADER_STORAGE_BUFFER, 0, data) into a fresh (zero) array.
getBufferSubData(bufs, binding, byteLength) ==
    LET t == binding.target
    IN  IF t = 0 \/ byteLength > bufs[t].size THEN ZeroData
        ELSE IF byteLength = bufs[t].size THEN bufs[t].data
        ELSE PrefixData(bufs[t].data)

(***************************************************************************)
(* register, write, read, disposeData.                                     *)
(***************************************************************************)
\* The mutant of registerMap: register overwrites an existing entry.
registerMapAlways(tm, id, shape, dtype) ==
    [tm EXCEPT ![id] =
        [has |-> TRUE, byteSize |-> sizeFromShape(shape) * bytesPerElement(dtype),
         values |-> <<>>, id |-> -1, buffer |-> id, dtype |-> dtype]]

\* The state change of register(dataId, shape, dtype) on tensorMap, the
\* buffers and the binding; used by Register and by Tensor.make.
registerMap(tm, id, shape, dtype) ==
    IF ~tm[id].has
    THEN [tm EXCEPT ![id] =
            [has |-> TRUE, byteSize |-> sizeFromShape(shape) * bytesPerElement(dtype),
             values |-> <<>>, id |-> -1, buffer |-> id, dtype |-> dtype]]
    ELSE tm

\* The mutant of registerBuffers: a buffer is created for every register call.
registerBuffersAlways(tm, bufs, id, shape, dtype) ==
    [bufs EXCEPT ![id] =
        [state |-> "live",
         size |-> sizeFromShape(shape) * bytesPerElement(dtype),
         data |-> ZeroData]]

registerBuffers(tm, bufs, id, shape, dtype) ==
    IF ~tm[id].has
    THEN [bufs EXCEPT ![id] =
            [state |-> "live",
             size |-> sizeFromShape(shape) * bytesPerElement(dtype),
             data |-> ZeroData]]
    ELSE bufs

registerBinding(tm, binding, id) ==
    IF ~tm[id].has THEN [binding EXCEPT !.target = id] ELSE binding

Register(id, shape, dtype) ==
    /\ id \in FreshIds => IsNextFresh(id)
    /\ tensorMap' = registerMap(tensorMap, id, shape, dtype)
    /\ glBuffers' = registerBuffers(tensorMap, glBuffers, id, shape, dtype)
    /\ ssbBinding' = registerBinding(tensorMap, ssbBinding, id)
    /\ tensors' = IF ~tensorMap[id].has
                  THEN [tensors EXCEPT ![id] = [shape |-> shape, dtype |-> dtype]]
                  ELSE tensors
    /\ lastOp' = [BaseOp("register", id) EXCEPT
                    !.shape = shape, !.dtype = dtype,
                    !.created = IF tensorMap[id].has THEN {} ELSE {id},
                    !.bound = ~tensorMap[id].has]
    /\ UNCHANGED <<uniformLive, binaryCache, compiled, failedKeys, kern>>

\* A tensor the frontend holds whose data lives on another backend.
ForeignTensor(id, shape, dtype) ==
    /\ IsNextFresh(id)
    /\ tensors' = [tensors EXCEPT ![id] = [shape |-> shape, dtype |-> dtype]]
    /\ lastOp' = BaseOp("tensor", id)
    /\ UNCHANGED <<tensorMap, glBuffers, ssbBinding, uniformLive, binaryCache,
                   compiled, failedKeys, kern>>

\* The typed arrays the frontend writes for a tensor: one per fill value.
ValuesFor(id) ==
    LET n == IF tensors[id] = NoTensor THEN 1 ELSE sizeFromShape(tensors[id].shape)
    IN  {[i \in 1..n |-> v] : v \in Vals}

Write(id, values) ==
    IF ~tensorMap[id].has
    THEN /\ lastOp' = [BaseOp("write", id) EXCEPT !.err = "was not registered"]
         /\ UNCHANGED <<tensors, tensorMap, glBuffers, ssbBinding, uniformLive,
                        binaryCache, compiled, failedKeys, kern>>
    ELSE LET info == tensorMap[id]
             binding == bindBuffer(glBuffers, ssbBinding, info.buffer)
         IN  /\ tensorMap' = [tensorMap EXCEPT ![id].values = values]
             /\ ssbBinding' = binding
             /\ glBuffers' = bufferSubData(glBuffers, binding, values)
             /\ lastOp' = [BaseOp("write", id) EXCEPT
                             !.values = values,
                             !.bound = TRUE,
                             !.onReleased = ~IsLive(glBuffers, info.buffer)]
             /\ UNCHANGED <<tensors, uniformLive, binaryCache, compiled, failedKeys, kern>>

\* The mutant of Read: the registration check is missing.
ReadUnchecked(id) ==
    /\ lastOp' = [BaseOp("read", id) EXCEPT
                    !.err = IF tensorMap[id].has THEN "none" ELSE "TypeError"]
    /\ UNCHANGED <<tensors, tensorMap, glBuffers, ssbBinding, uniformLive,
                   binaryCache, compiled, failedKeys, kern>>

Read(id) ==
    IF ~tensorMap[id].has
    THEN /\ lastOp' = [BaseOp("read", id) EXCEPT !.err = "was not registered"]
         /\ UNCHANGED <<tensors, tensorMap, glBuffers, ssbBinding, uniformLive,
                        binaryCache, compiled, failedKeys, kern>>
    ELSE LET info == tensorMap[id]
             size == info.byteSize
             binding == bindBuffer(glBuffers, ssbBinding, info.buffer)
         IN  /\ ssbBinding' = binding
             /\ lastOp' = [BaseOp("read", id) EXCEPT
                             !.data = getBufferSubData(glBuffers, binding, size),
                             !.len = size \div 4,
                             !.bound = TRUE,
                             !.onReleased = ~IsLive(glBuffers, info.buffer)]
             /\ UNCHANGED <<tensors, tensorMap, glBuffers, uniformLive,
                            binaryCache, compiled, failedKeys, kern>>

DisposeData(id) ==
    IF ~tensorMap[id].has
    THEN /\ lastOp' = [BaseOp("disposeData", id) EXCEPT !.err = "was not registered"]
         /\ UNCHANGED <<tensors, tensorMap, glBuffers, ssbBinding, uniformLive,
                        binaryCache, compiled, failedKeys, kern>>
    ELSE LET info == tensorMap[id]
         IN  /\ glBuffers' = deleteBuffer(glBuffers, info.buffer)
             /\ ssbBinding' = unbindDeleted(glBuffers, ssbBinding, info.buffer)
             /\ lastOp' = [BaseOp("disposeData", id) EXCEPT
                             !.onReleased = ~IsLive(glBuffers, info.buffer)]
             /\ UNCHANGED <<tensors, tensorMap, uniformLive, binaryCache,
                            compiled, failedKeys, kern>>

(***************************************************************************)
(* compileProgram, getAndSaveBinary, compileAndRun, batchMatMul.           *)
(***************************************************************************)
\* What the driver answers to compileShader / validateProgram.
DriverOutcomes == {"ok", "COMPILE_STATUS false", "VALIDATE_STATUS false"}

\* compileProgram: the error it throws ("none" when it returns a binary).
compileProgramError(program, inputsData, output, driver) ==
    IF makeShaderThrows(inputsData, output, program) THEN "TypeError"
    ELSE IF driver = "COMPILE_STATUS false" THEN "Failed to compile compute shader."
    ELSE IF driver = "VALIDATE_STATUS false" THEN "Shader program validation failed."
    ELSE "none"

\* The binary compileProgram returns: the program object built from the source.
compileProgram(program, inputsData, output) ==
    [source |-> makeShader(inputsData, output, program)]

\* The mutant of cacheHit: the cache is never consulted.
cacheHitNever(cache, key) == FALSE

\* getAndSaveBinary's test `key in this.binaryCache`.
cacheHit(cache, key) == key \in DOMAIN cache

\* getAndSaveBinary(key, getBinary) when getBinary returns: the cache after it.
getAndSaveBinary(cache, key, binary) ==
    IF ~cacheHit(cache, key)
    THEN [k \in DOMAIN cache \cup {key} |-> IF k = key THEN binary ELSE cache[k]]
    ELSE cache

\* The mutant of getAndSaveBinaryThrows: an entry is stored although
\* compileProgram threw.
getAndSaveBinaryStoresOnThrow(cache, key) ==
    [k \in DOMAIN cache \cup {key} |-> [source |-> <<>>]]

\* getAndSaveBinary(key, getBinary) when getBinary throws: the assignment to
\* binaryCache[key] is not reached.
getAndSaveBinaryThrows(cache, key) == cache

\* The program batchMatMul selects.
selectMatMulProgram(aShape, bShape, outputShape, workPerThread) ==
    IF workPerThread = 0 THEN MatMulProgram(outputShape)
    ELSE IF aShape[3] % 4 = 0 /\ bShape[3] % 4 = 0
         THEN MatMul8x8And4x16Program(outputShape)
         ELSE MatMulPackedProgram(outputShape, workPerThread)


\* The effect of dispatchCompute on the buffers: the binary reads the buffers
\* bound at 0 and 1 and writes the buffer bound at 2.
dispatchCompute(bufs, binding, key) ==
    LET dataAt(i) == IF binding.base[i] = 0 THEN NoData ELSE bufs[binding.base[i]].data
        out == binding.base[3]
    IN  IF out = 0 THEN bufs
        ELSE [bufs EXCEPT ![out].data = DispatchData(key, <<dataAt(1), dataAt(2)>>)]

BatchMatMul(a, b, transposeA, transposeB, workPerThread, driver) ==
    /\ tensors[a] # NoTensor /\ tensors[b] # NoTensor
    /\ FreshIds # {}
    /\ LET aT == tensors[a]
           bT == tensors[b]
           innerA == IF transposeA THEN aT.shape[2] ELSE aT.shape[3]
           innerB == IF transposeB THEN bT.shape[3] ELSE bT.shape[2]
           outerShapeA == IF transposeA THEN aT.shape[3] ELSE aT.shape[2]
           outerShapeB == IF transposeB THEN bT.shape[2] ELSE bT.shape[3]
           batch == aT.shape[1]
           o == CHOOSE id \in FreshIds : IsNextFresh(id)
           outT == [shape |-> <<batch, outerShapeA, outerShapeB>>, dtype |-> aT.dtype]
           \* Tensor.make(..., this) registers the output with the backend
           tm1 == registerMap(tensorMap, o, outT.shape, outT.dtype)
           bufs1 == registerBuffers(tensorMap, glBuffers, o, outT.shape, outT.dtype)
           bind1 == registerBinding(tensorMap, ssbBinding, o)
           program == selectMatMulProgram(aT.shape, bT.shape, outT.shape, workPerThread)
           \* compileAndRun(program, [a, b], output)
           bufferShapes == <<aT.shape, bT.shape, outT.shape>>
           key == makeShaderKey(program, Ranks(bufferShapes))
           inputsRegistered == tm1[a].has /\ tm1[b].has
           inputsData == <<[dtype |-> tm1[a].dtype, shape |-> aT.shape,
                            name |-> program.variableNames[1]],
                           [dtype |-> tm1[b].dtype, shape |-> bT.shape,
                            name |-> program.variableNames[2]]>>
           hit == cacheHit(binaryCache, key)
           cerr == compileProgramError(program, inputsData, outT, driver)
           op0 == [BaseOp("batchMatMul", o) EXCEPT
                     !.program = program, !.ranks = Ranks(bufferShapes),
                     !.key = key, !.unregistered = ~inputsRegistered,
                     !.created = {o}, !.bound = TRUE]
           bind2 == bindBufferBase(bufs1, bind1, 0, tm1[a].buffer)
           bind3 == bindBufferBase(bufs1, bind2, 1, tm1[b].buffer)
           bind4 == bindBufferBase(bufs1, bind3, 2, tm1[o].buffer)
       IN  /\ innerA = innerB /\ batch = bT.shape[1]
           /\ tensors' = [tensors EXCEPT ![o] = outT]
           /\ tensorMap' = tm1
           /\ kern' = kern
           /\ IF ~inputsRegistered
              THEN \* inputsData reads .dtype of an absent tensorMap entry
                   /\ driver = "ok"
                   /\ lastOp' = [op0 EXCEPT !.err = "TypeError"]
                   /\ glBuffers' = bufs1
                   /\ ssbBinding' = bind1
                   /\ UNCHANGED <<uniformLive, binaryCache, compiled, failedKeys>>
              ELSE IF ~hit /\ cerr # "none"
              THEN \* compileProgram throws inside getAndSaveBinary
                   /\ lastOp' = [op0 EXCEPT !.err = cerr, !.compileCalled = TRUE]
                   /\ glBuffers' = bufs1
                   /\ ssbBinding' = bind1
                   /\ binaryCache' = getAndSaveBinaryThrows(binaryCache, key)
                   /\ failedKeys' = failedKeys \cup {key}
                   /\ UNCHANGED <<uniformLive, compiled>>
              ELSE /\ hit => driver = "ok"
                   /\ binaryCache' =
                        getAndSaveBinary(binaryCache, key,
                            compileProgram(program, inputsData, outT))
                   /\ compiled' =
                        IF hit THEN compiled
                        ELSE [k \in DOMAIN compiled \cup {key} |->
                                 IF k \in DOMAIN compiled
                                 THEN compiled[k] + (IF k = key THEN 1 ELSE 0)
                                 ELSE 1]
                   /\ failedKeys' = failedKeys
                   /\ uniformLive' = uniformLive + 1
                   /\ ssbBinding' = bind4
                   /\ glBuffers' = dispatchCompute(bufs1, bind4, key)
                   /\ lastOp' = [op0 EXCEPT
                                   !.hit = hit, !.compileCalled = ~hit,
                                   !.dispatched = TRUE,
                                   !.source = makeShader(inputsData, outT, program),
                                   !.onReleased =
                                       \/ ~IsLive(bufs1, tm1[a].buffer)
                                       \/ ~IsLive(bufs1, tm1[b].buffer)]

\* Every backend call counts against the session's budget.
Budget == calls < MaxCalls /\ calls' = calls + 1

Next ==
    \/ \E id \in DataIds, shape \in Shapes, dtype \in DTypes :
          Budget /\ Register(id, shape, dtype)
    \/ \E id \in DataIds, shape \in Shapes, dtype \in DTypes :
          Budget /\ ForeignTensor(id, shape, dtype)
    \/ \E id \in DataIds : \E values \in ValuesFor(id) :
          Budget /\ Write(id, values)
    \/ \E id \in DataIds : Budget /\ Read(id)
    \/ \E id \in DataIds : Budget /\ DisposeData(id)
    \/ \E a \in DataIds, b \in DataIds, tA \in BOOLEAN, tB \in BOOLEAN,
          w \in WorkPerThreadFlags, driver \in DriverOutcomes :
          Budget /\ BatchMatMul(a, b, tA, tB, w, driver)

Spec == Init /\ [][Next]_vars

(***************************************************************************)
(* Properties of the backend (specification Spec).                         *)
(***************************************************************************)
Ran == lastOp.op = "batchMatMul" /\ lastOp.dispatched

\* C1: two invocations with equal cache keys generate the same shader source,
\* so the binary a run takes from the cache is the one makeShader would
\* generate for that run's own input dtypes, output dtype and broadcast
\* dimensions.  (The code refutes this.)
C1_EqualKeysEqualSource ==
    Ran => binaryCache[lastOp.key].source = lastOp.source

\* The rank vectors a kernel with two inputs and one output can be run with.
RankVectors == [1..3 -> 1..4]

CompileErrors == {"TypeError", "Failed to compile compute shader.",
                  "Shader program validation failed."}

\* C3: when compileProgram throws, no cache entry exists for that key, the
\* other entries are unchanged, nothing is dispatched, and a call whose key
\* has no entry (so also the next call after the failure) compiles again.
C3_CompileFailureLeavesCache ==
    [][ /\ (lastOp'.op = "batchMatMul" /\ lastOp'.compileCalled
            /\ lastOp'.err \in CompileErrors) =>
              /\ lastOp'.key \notin DOMAIN binaryCache'
              /\ binaryCache' = binaryCache
              /\ compiled' = compiled
              /\ ~lastOp'.dispatched
              /\ \A h \in DataIds : glBuffers[h].state = "live" =>
                                       glBuffers'[h] = glBuffers[h]
        /\ (lastOp'.op = "batchMatMul" /\ ~lastOp'.unregistered
            /\ lastOp'.key \notin DOMAIN binaryCache) => lastOp'.compileCalled
      ]_vars

\* C3 witness: a call compiled and cached a key after an earlier call with
\* that key had failed to compile.
C3_Witness ==
    /\ Ran /\ lastOp.compileCalled /\ ~lastOp.hit
    /\ lastOp.key \in failedKeys
    /\ lastOp.key \in DOMAIN binaryCache

\* C4: after disposeData(id), every later write, read, disposeData or
\* dispatch using id fails with an error, so no call hands a released buffer
\* to GL.  (The code refutes this.)
C4_DisposedIdIsRejected ==
    lastOp.onReleased => lastOp.err # "none"

\* C5: register on an identity already in tensorMap changes nothing, whatever
\* the shape and dtype passed.
C5_ReRegisterIsNoOp ==
    [][ (lastOp'.op = "register" /\ tensorMap[lastOp'.id].has) =>
            /\ lastOp'.err = "none"
            /\ UNCHANGED <<tensorMap, glBuffers, ssbBinding, uniformLive,
                           binaryCache, tensors>>
      ]_vars

\* C5 witness: register was called on a registered identity with another
\* dtype and another byte size than the entry has.
C5_Witness ==
    /\ lastOp.op = "register" /\ lastOp.created = {}
    /\ tensorMap[lastOp.id].has
    /\ tensorMap[lastOp.id].dtype # lastOp.dtype
    /\ tensorMap[lastOp.id].byteSize #
           sizeFromShape(lastOp.shape) * bytesPerElement(lastOp.dtype)

\* C6: write, read and disposeData on an identity that was never registered
\* fail with the 'was not registered' error and leave tensorMap, the
\* buffers, the bindings and the cache as they were.
C6_UnregisteredIdIsRejected ==
    [][ (lastOp'.op \in {"write", "read", "disposeData"}
         /\ ~tensorMap[lastOp'.id].has) =>
            /\ lastOp'.err = "was not registered"
            /\ UNCHANGED <<tensorMap, glBuffers, ssbBinding, uniformLive,
                           binaryCache, tensors>>
      ]_vars

\* C6 witness: a read of an unregistered identity was rejected while another
\* identity is registered.
C6_Witness ==
    /\ lastOp.op = "read" /\ lastOp.err = "was not registered"
    /\ ~tensorMap[lastOp.id].has
    /\ \E other \in DataIds : tensorMap[other].has

\* C7: compileAndRun with an input or output that is not registered fails
\* with the 'was not registered' error before any buffer is created or bound,
\* any shader compiled or cached, or any dispatch issued.  (The code refutes
\* this.)
C7_UnregisteredRunIsRejected ==
    (lastOp.op = "batchMatMul" /\ lastOp.unregistered) =>
        /\ lastOp.err = "was not registered"
        /\ lastOp.created = {} /\ ~lastOp.bound
        /\ ~lastOp.compileCalled /\ ~lastOp.dispatched

RECURSIVE Pow2(_)
Pow2(n) == IF n = 0 THEN 1 ELSE 2 * Pow2(n - 1)

RECURSIVE FloorLog2(_)
FloorLog2(n) == IF n < 2 THEN 0 ELSE 1 + FloorLog2(n \div 2)

Float(m, e) == IF m = 0 THEN [m |-> 0, e |-> 0] ELSE [m |-> m, e |-> e]

\* The IEEE-754 binary32 bit pattern of a float, and back.
FloatToBits(x) ==
    IF x.m = 0 THEN 0
    ELSE IF x.e = -149 THEN x.m
    ELSE LET ex == FloorLog2(x.m)
         IN  (127 + ex) * Pow2(23) + (x.m - Pow2(ex)) * Pow2(23 - ex)

BitsToFloat(w) ==
    IF w < Pow2(23) THEN Float(w, -149)
    ELSE LET ex == (w \div Pow2(23)) - 127
             frac == w % Pow2(23)
         IN  Float(((Pow2(23) + frac) * Pow2(ex)) \div Pow2(23), 0)

\* The words a typed array of the tensor's dtype holds (Int32Array for int32,
\* Float32Array otherwise), and the numbers read back from words.
TypedArrayBits(dtype, values) ==
    [i \in 1..Len(values) |->
        IF dtype = "int32" THEN values[i] ELSE FloatToBits(Float(values[i], 0))]

TypedArrayNumbers(dtype, words) ==
    [i \in 1..Len(words) |->
        IF dtype = "int32" THEN Float(words[i], 0) ELSE BitsToFloat(words[i])]

\* binary_op.MUL ('return a * b;') and binary_op.ADD ('return a + b;') on
\* floats: a product of two denormals underflows to zero, a denormal added
\* to a normal number is rounded away.
binaryOperation(op, a, b) ==
    IF op = "MUL"
    THEN IF a.m = 0 \/ b.m = 0 \/ a.e + b.e < -149 THEN Float(0, 0)
         ELSE Float(a.m * b.m, a.e + b.e)
    ELSE IF a.e = b.e THEN Float(a.m + b.m, a.e)
         ELSE IF a.m = 0 THEN b
         ELSE IF b.m = 0 THEN a
         ELSE IF a.e = 0 THEN a ELSE b

computeWorkGroupSize(outputShape) ==
    LET size == sizeFromShape(outputShape)
        x == IF size > 512 THEN 512
             ELSE IF size > 256 THEN 256
             ELSE IF size > 128 THEN 128
             ELSE IF size > 64 THEN 64
             ELSE IF size > 32 THEN 32
             ELSE 16
    IN  <<x, 1, 1>>

\* BinaryOpProgram: the dispatch its constructor computes.
BinaryOpProgramDispatch(outputShape) ==
    <<CeilDiv(sizeFromShape(outputShape), computeWorkGroupSize(outputShape)[1]), 1, 1>>

\* The operand pairs of the elementwise runs (equal shapes, rank 1).
ElemInputs ==
    { [a |-> <<1, 2, 3>>, b |-> <<3, 4, 5>>],
      [a |-> <<2>>, b |-> <<3>>],
      [a |-> <<0, 1>>, b |-> <<5, 0>>],
      [a |-> [i \in 1..16 |-> i % 3], b |-> [i \in 1..16 |-> 2]] }

ElemOps == {"MUL", "ADD"}

InitElem ==
    /\ BackendInit
    /\ kern \in { [phase |-> "made", op |-> op, dtype |-> dtype,
                   a |-> in.a, b |-> in.b,
                   bufA |-> <<>>, bufB |-> <<>>, bufOut |-> <<>>,
                   oobAt |-> 0, result |-> <<>>] :
                  op \in ElemOps, dtype \in DTypes, in \in ElemInputs }

\* write(a.dataId, a values), write(b.dataId, b values), and the output
\* tensor binaryOp makes (register: a zero-filled buffer).
ElemWrite ==
    /\ kern.phase = "made"
    /\ kern' = [kern EXCEPT
                  !.phase = "written",
                  !.bufA = TypedArrayBits(kern.dtype, kern.a),
                  !.bufB = TypedArrayBits(kern.dtype, kern.b),
                  !.bufOut = [i \in 1..Len(kern.a) |-> 0]]
    /\ UNCHANGED backendVars

\* The dispatch of BinaryOpProgram: thread index reads A[index] and B[index]
\* as floats and stores binaryOperation(a, b) in result[index].  The kernel
\* has no bounds check: a thread with index >= the element count reads and
\* writes out of bounds, which (robust buffer access) reads zero or a word of
\* the buffer and either is ignored or modifies a word of the buffer.
\* oobAt = 0: the out-of-bounds writes are ignored; oobAt = j: one lands on
\* result[j - 1], computed from the out-of-bounds reads x and y.
ElemDispatch(oobAt, x, y) ==
    /\ kern.phase = "written"
    /\ LET n == Len(kern.a)
           threads == BinaryOpProgramDispatch(<<n>>)[1] * computeWorkGroupSize(<<n>>)[1]
           inRange == [i \in 1..n |->
                          FloatToBits(binaryOperation(kern.op,
                              BitsToFloat(kern.bufA[i]), BitsToFloat(kern.bufB[i])))]
       IN  /\ oobAt \in 0..n
           /\ oobAt # 0 => threads > n
           /\ x \in {0} \cup {kern.bufA[i] : i \in 1..n}
           /\ y \in {0} \cup {kern.bufB[i] : i \in 1..n}
           /\ oobAt = 0 => x = 0 /\ y = 0
           /\ kern' = [kern EXCEPT
                         !.phase = "dispatched",
                         !.oobAt = oobAt,
                         !.bufOut =
                             IF oobAt = 0 THEN inRange
                             ELSE [inRange EXCEPT ![oobAt] =
                                     FloatToBits(binaryOperation(kern.op,
                                         BitsToFloat(x), BitsToFloat(y)))]]
    /\ UNCHANGED backendVars

\* read(output.dataId): the typed array of the output's dtype.
ElemRead ==
    /\ kern.phase = "dispatched"
    /\ kern' = [kern EXCEPT
                  !.phase = "read",
                  !.result = TypedArrayNumbers(kern.dtype, kern.bufOut)]
    /\ UNCHANGED backendVars

NextElem ==
    \/ ElemWrite
    \/ \E oobAt \in 0..16 :
          \E x \in {0} \cup {kern.bufA[i] : i \in 1..Len(kern.bufA)} :
             \E y \in {0} \cup {kern.bufB[i] : i \in 1..Len(kern.bufB)} :
                ElemDispatch(oobAt, x, y)
    \/ ElemRead

SpecElem == InitElem /\ [][NextElem]_vars

\* C9: multiply(a, b) (add(a, b)) on two registered tensors of equal shape
\* yields a tensor whose read returns a[i] * b[i] (a[i] + b[i]) at every
\* flat index i.  Checked on the runs in which the out-of-bounds writes of
\* the surplus threads were ignored, the outcome that favours the claim.
\* (The code refutes this.)
C9_ReadReturnsElementwiseResult ==
    (kern.phase = "read" /\ kern.oobAt = 0) =>
        \A i \in 1..Len(kern.a) :
            kern.result[i] =
                Float(IF kern.op = "MUL" THEN kern.a[i] * kern.b[i]
                      ELSE kern.a[i] + kern.b[i], 0)

(***************************************************************************)
(* The tiled matrix multiply (MatMulProgram with makeMatMulSource),        *)
(* executed workgroup by workgroup and tile by tile on integer-valued      *)
(* floats.  The workgroups of a dispatch are independent; they are run in  *)
(* the order of their index.                                               *)
(***************************************************************************)
\* gl_WorkGroupSize.x of MatMulProgram: the tile edge.
MatTileSize == 16

\* The extents M, K, N the runs draw from.
MatDims == {1, 2, 17}

MatSeeds == {0, 1}

Local == 0..(MatTileSize - 1)

\* Row-major operands [1, M, K] and [1, K, N] with small integer entries.
MatA(M, K, seed) == [i \in 1..(M * K) |->
                        ((((i - 1) \div K) + 2 * ((i - 1) % K) + seed) % 3) + 1]

MatB(K, N, seed) == [i \in 1..(K * N) |->
                        ((2 * ((i - 1) \div N) + ((i - 1) % N) + seed) % 4) + 1]

InitMatMul ==
    /\ BackendInit
    /\ kern \in { [phase |-> "made", aShape |-> <<1, M, K>>, bShape |-> <<1, K, N>>,
                   outShape |-> <<1, M, N>>,
                   A |-> MatA(M, K, seed), B |-> MatB(K, N, seed),
                   dispatch |-> <<0, 0, 0>>, result |-> <<>>,
                   wg |-> 0, t |-> 0, written |-> 0,
                   acc |-> [p \in Local \X Local |-> 0],
                   out |-> <<>>] :
                  M \in MatDims, K \in MatDims, N \in MatDims, seed \in MatSeeds }

\* mm_readA, mm_readB of MatMulProgram: zero outside the operand.
mm_readA(k, row, col) ==
    IF row < k.aShape[2] /\ col < k.aShape[3]
    THEN k.A[row * k.aShape[3] + col + 1] ELSE 0

mm_readB(k, row, col) ==
    IF row < k.aShape[3] /\ col < k.bShape[3]
    THEN k.B[row * k.bShape[3] + col + 1] ELSE 0

\* numTiles = (dimInner - 1u) / MatTileSize + 1u, in 32-bit unsigned
\* arithmetic: 0u - 1u wraps to 2^32 - 1 (MatTileSize divides 2^32).
numTiles(dimInner) ==
    IF dimInner = 0 THEN ((Pow2(30) \div MatTileSize) * 4 - 1) + 1
    ELSE ((dimInner - 1) \div MatTileSize) + 1

RECURSIVE SumOver(_, _, _)
SumOver(f, from, to) == IF from > to THEN 0 ELSE f[from] + SumOver(f, from + 1, to)

\* batchMatMul up to the dispatch: the operands are in their buffers, the
\* output is registered (a zero-filled buffer) and MatMulProgram's
\* constructor has computed the dispatch from its layout.
MatMulDispatch ==
    /\ kern.phase = "made"
    /\ kern' = [kern EXCEPT
                  !.phase = "running",
                  !.dispatch = MatMulProgram(kern.outShape).dispatch,
                  !.out = [i \in 1..sizeFromShape(kern.outShape) |-> 0]]
    /\ UNCHANGED backendVars

\* The workgroup with index wg: gl_WorkGroupID.x and .y.
WorkGroupX(k) == k.wg % k.dispatch[1]

WorkGroupY(k) == k.wg \div k.dispatch[1]

\* One iteration of the tile loop by the threads of the current workgroup:
\* every thread loads one element of mm_Asub and of mm_Bsub, barrier, every
\* thread accumulates over the tile, barrier.
MatMulTile ==
    /\ kern.phase = "running"
    /\ kern.wg < kern.dispatch[1] * kern.dispatch[2] * kern.dispatch[3]
    /\ kern.t < numTiles(kern.aShape[3])
    /\ LET globalRow(localRow) == WorkGroupY(kern) * MatTileSize + localRow
           globalCol(localCol) == WorkGroupX(kern) * MatTileSize + localCol
           mm_Asub == [p \in Local \X Local |->
                          mm_readA(kern, globalRow(p[1]), MatTileSize * kern.t + p[2])]
           mm_Bsub == [p \in Local \X Local |->
                          mm_readB(kern, MatTileSize * kern.t + p[1], globalCol(p[2]))]
           partial(p) == SumOver([j \in Local |-> mm_Asub[<<p[1], j>>] * mm_Bsub[<<j, p[2]>>]],
                                 0, MatTileSize - 1)
       IN  kern' = [kern EXCEPT
                      !.t = kern.t + 1,
                      !.acc = [p \in Local \X Local |-> kern.acc[p] + partial(p)]]
    /\ UNCHANGED backendVars

\* After the tile loop every thread of the workgroup with
\* globalCol < dimBOuter and globalRow < dimAOuter calls mm_write, which
\* stores acc at row * dimBOuter + col.
MatMulStore ==
    /\ kern.phase = "running"
    /\ kern.wg < kern.dispatch[1] * kern.dispatch[2] * kern.dispatch[3]
    /\ kern.t = numTiles(kern.aShape[3])
    /\ LET dimAOuter == kern.aShape[2]
           dimBOuter == kern.bShape[3]
           localOf(i) == <<((i - 1) \div dimBOuter) - WorkGroupY(kern) * MatTileSize,
                           ((i - 1) % dimBOuter) - WorkGroupX(kern) * MatTileSize>>
           mine(i) == localOf(i) \in Local \X Local
       IN  kern' = [kern EXCEPT
                      !.wg = kern.wg + 1,
                      !.t = 0,
                      !.acc = [p \in Local \X Local |-> 0],
                      !.written = kern.written
                          + Cardinality({i \in 1..(dimAOuter * dimBOuter) : mine(i)}),
                      !.out = [i \in 1..Len(kern.out) |->
                                  IF mine(i) THEN kern.acc[localOf(i)] ELSE kern.out[i]]]
    /\ UNCHANGED backendVars

\* read(output.dataId) after the last workgroup.
MatMulRead ==
    /\ kern.phase = "running"
    /\ kern.wg = kern.dispatch[1] * kern.dispatch[2] * kern.dispatch[3]
    /\ kern' = [kern EXCEPT !.phase = "read", !.result = kern.out]
    /\ UNCHANGED backendVars

NextMatMul ==
    \/ MatMulDispatch
    \/ MatMulTile
    \/ MatMulStore
    \/ MatMulRead

SpecMatMul == InitMatMul /\ [][NextMatMul]_vars

\* The matrix product, element (r, c), 0-based.
MatProduct(k, r, c) ==
    SumOver([j \in 0..(k.aShape[3] - 1) |->
                k.A[r * k.aShape[3] + j + 1] * k.B[j * k.bShape[3] + c + 1]],
            0, k.aShape[3] - 1)

\* C10: batchMatMul of A [1,M,K] and B [1,K,N] leaves sum_k A[r,k] * B[k,c]
\* at every row r < M and column c < N of the output, for all M, K, N >= 1
\* including M # N and sizes that are not multiples of the tile size.  (The
\* code refutes this.)
C10_MatMulComputesProduct ==
    kern.phase = "read" =>
        \A r \in 0..(kern.aShape[2] - 1), c \in 0..(kern.bShape[3] - 1) :
            kern.result[r * kern.bShape[3] + c + 1] = MatProduct(kern, r, c)

(***************************************************************************)
(* The arg-min/max kernel (ArgMinMaxProgram.userCode) on a rank-1 input,   *)
(* executed by the threads of the workgroup that computes output element   *)
(* 0.  A thread step is one access to shared memory or one barrier; the    *)
(* per-thread scan touches only the read-only input and thread-local       *)
(* variables and is one step.  barrier() is the only synchronization: the *)
(* steps of different threads between two barriers interleave freely.     *)
(***************************************************************************)
\* The comparison each thread does per level of the shared-memory reduction.
reductionFactor == 2

\* gl_MaxComputeWorkGroupSize.
xMaxThreads == 1024

\* The number of threads ArgMinMaxProgram's constructor puts in a workgroup.
xThreads(reduceSize) ==
    IF CeilDiv(reduceSize, reductionFactor) < xMaxThreads
    THEN CeilDiv(reduceSize, reductionFactor) ELSE xMaxThreads

\* DIV_CEIL(x, y) = ((x) - 1u) / (y) + 1u, for x >= 1.
DIV_CEIL(x, y) == ((x - 1) \div y) + 1

\* 'candidate < bestValue' for argMin, 'candidate > bestValue' for argMax
\* (the values of the model are numbers: isnan(candidate) is false).
argBetter(reduceType, candidate, bestValue) ==
    IF reduceType = "min" THEN candidate < bestValue ELSE candidate > bestValue

\* The scan loop of main() for one thread: w = from .. WorkPerThread - 1.
RECURSIVE argScan(_, _, _, _, _, _)
argScan(x, reduceType, gid, WorkPerThread, w, best) ==
    IF w >= WorkPerThread THEN best
    ELSE LET i == gid * WorkPerThread + w
             next == IF i < Len(x) /\ argBetter(reduceType, x[i + 1], best.value)
                     THEN [index |-> i, value |-> x[i + 1]]
                     ELSE best
         IN  argScan(x, reduceType, gid, WorkPerThread, w + 1, next)

\* Input vectors of the runs: all vectors of ArgLen values from ArgVals, and
\* the vector of the documented example.
ArgVals == {1, 2, 3}

ArgLen == 5

ArgExample == <<3, 1, 4, 1, 5, 9, 2, 6>>

ArgInputs == [1..ArgLen -> ArgVals] \cup [1..2 -> ArgVals] \cup {ArgExample}

ArgThreads(k) == 0..(k.n - 1)

InitArgMax ==
    /\ BackendInit
    /\ kern \in { [phase |-> "made", x |-> x, reduceType |-> reduceType,
                   n |-> 0, pc |-> <<>>, bestIndex |-> <<>>, bestValue |-> <<>>,
                   candidateIndex |-> <<>>, w |-> <<>>, currentSize |-> <<>>,
                   xBestIndices |-> <<>>, xBestValues |-> <<>>,
                   result |-> -1] :
                  x \in ArgInputs, reduceType \in {"min", "max"} }

\* The dispatch starts the threads of the workgroup at main().
ArgLaunch ==
    /\ kern.phase = "made"
    /\ LET n == xThreads(Len(kern.x))
           each(v) == [t \in 1..n |-> v]
       IN  kern' = [kern EXCEPT
                      !.phase = "running", !.n = n,
                      !.pc = each("scan"),
                      !.bestIndex = each(0), !.bestValue = each(0),
                      !.candidateIndex = each(0), !.w = each(0),
                      !.currentSize = each(0),
                      !.xBestIndices = each(0), !.xBestValues = each(0)]
    /\ UNCHANGED backendVars

\* The position after iteration w - 1 of the 'for (w ...)' loop of one
\* reduction level: the next read whose slot i is below currentSize, or the
\* writes that end the level.
argNextRead(lid, w, currentSize) ==
    IF w < reductionFactor /\ lid * reductionFactor + w < currentSize
    THEN [pc |-> "readIndex", w |-> w]
    ELSE IF w + 1 < reductionFactor /\ lid * reductionFactor + w + 1 < currentSize
    THEN [pc |-> "readIndex", w |-> w + 1]
    ELSE [pc |-> "writeIndex", w |-> 0]

\* main() up to the shared-memory snippet: bestIndex = 0, bestValue = x[0],
\* then the scan of the thread's WorkPerThread elements.
ArgScan(lid) ==
    /\ kern.phase = "running" /\ lid \in ArgThreads(kern)
    /\ kern.pc[lid + 1] = "scan"
    /\ LET WorkPerThread == DIV_CEIL(Len(kern.x), kern.n)
           best == argScan(kern.x, kern.reduceType, lid, WorkPerThread, 0,
                           [index |-> 0, value |-> kern.x[1]])
       IN  kern' = [kern EXCEPT
                      !.bestIndex[lid + 1] = best.index,
                      !.bestValue[lid + 1] = best.value,
                      !.pc[lid + 1] = IF kern.n > 1 THEN "writeIndex" ELSE "output"]
    /\ UNCHANGED backendVars

\* xBestIndices[gl_LocalInvocationID.x] = bestIndex;
ArgWriteIndex(lid) ==
    /\ kern.phase = "running" /\ lid \in ArgThreads(kern)
    /\ kern.pc[lid + 1] = "writeIndex"
    /\ kern' = [kern EXCEPT
                  !.xBestIndices[lid + 1] = kern.bestIndex[lid + 1],
                  !.pc[lid + 1] = "writeValue"]
    /\ UNCHANGED backendVars

\* xBestValues[gl_LocalInvocationID.x] = bestValue; before the loop this is
\* followed by 'currentSize = WorkGroupSize' (currentSize 0 in the model:
\* not yet declared), inside it by
\* 'currentSize = DIV_CEIL(currentSize, 2u)'; then the loop test.
ArgWriteValue(lid) ==
    /\ kern.phase = "running" /\ lid \in ArgThreads(kern)
    /\ kern.pc[lid + 1] = "writeValue"
    /\ LET size == IF kern.currentSize[lid + 1] = 0 THEN kern.n
                   ELSE DIV_CEIL(kern.currentSize[lid + 1], reductionFactor)
       IN  kern' = [kern EXCEPT
                      !.xBestValues[lid + 1] = kern.bestValue[lid + 1],
                      !.currentSize[lid + 1] = size,
                      !.pc[lid + 1] = IF size > 1 THEN "barrier" ELSE "output"]
    /\ UNCHANGED backendVars

\* barrier(): the thread arrives and waits.
ArgBarrier(lid) ==
    /\ kern.phase = "running" /\ lid \in ArgThreads(kern)
    /\ kern.pc[lid + 1] = "barrier"
    /\ kern' = [kern EXCEPT !.pc[lid + 1] = "wait"]
    /\ UNCHANGED backendVars

\* Every thread of the workgroup has arrived: all of them leave the barrier.
ArgRelease ==
    /\ kern.phase = "running"
    /\ \A t \in ArgThreads(kern) : kern.pc[t + 1] = "wait"
    /\ kern' = [kern EXCEPT
                  !.pc = [t \in 1..kern.n |->
                            argNextRead(t - 1, 0, kern.currentSize[t]).pc],
                  !.w = [t \in 1..kern.n |->
                            argNextRead(t - 1, 0, kern.currentSize[t]).w]]
    /\ UNCHANGED backendVars

\* uint candidateIndex = xBestIndices[i];
ArgReadIndex(lid) ==
    /\ kern.phase = "running" /\ lid \in ArgThreads(kern)
    /\ kern.pc[lid + 1] = "readIndex"
    /\ LET i == lid * reductionFactor + kern.w[lid + 1]
       IN  kern' = [kern EXCEPT
                      !.candidateIndex[lid + 1] = kern.xBestIndices[i + 1],
                      !.pc[lid + 1] = "readValue"]
    /\ UNCHANGED backendVars

\* float candidate = xBestValues[i]; and the comparison that follows.
ArgReadValue(lid) ==
    /\ kern.phase = "running" /\ lid \in ArgThreads(kern)
    /\ kern.pc[lid + 1] = "readValue"
    /\ LET i == lid * reductionFactor + kern.w[lid + 1]
           candidate == kern.xBestValues[i + 1]
           better == argBetter(kern.reduceType, candidate, kern.bestValue[lid + 1])
           next == argNextRead(lid, kern.w[lid + 1] + 1, kern.currentSize[lid + 1])
       IN  kern' = [kern EXCEPT
                      !.bestValue[lid + 1] = IF better THEN candidate ELSE @,
                      !.bestIndex[lid + 1] =
                          IF better THEN kern.candidateIndex[lid + 1] ELSE @,
                      !.candidateIndex[lid + 1] = 0,
                      !.pc[lid + 1] = next.pc,
                      !.w[lid + 1] = next.w]
    /\ UNCHANGED backendVars

\* if (gl_LocalInvocationID.x == 0u) setOutput(flatOutputIndex, bestIndex);
\* without shared memory (one thread): setOutput(flatOutputIndex, bestIndex).
ArgOutput(lid) ==
    /\ kern.phase = "running" /\ lid \in ArgThreads(kern)
    /\ kern.pc[lid + 1] = "output"
    /\ kern' = [kern EXCEPT
                  !.pc[lid + 1] = "done",
                  !.result = IF lid = 0 THEN kern.bestIndex[1] ELSE @]
    /\ UNCHANGED backendVars

NextArgMax ==
    \/ ArgLaunch
    \/ \E lid \in ArgThreads(kern) : ArgScan(lid)
    \/ \E lid \in ArgThreads(kern) : ArgWriteIndex(lid)
    \/ \E lid \in ArgThreads(kern) : ArgWriteValue(lid)
    \/ \E lid \in ArgThreads(kern) : ArgBarrier(lid)
    \/ ArgRelease
    \/ \E lid \in ArgThreads(kern) : ArgReadIndex(lid)
    \/ \E lid \in ArgThreads(kern) : ArgReadValue(lid)
    \/ \E lid \in ArgThreads(kern) : ArgOutput(lid)

SpecArgMax == InitArgMax /\ [][NextArgMax]_vars

\* The extreme value of the input along the reduced axis.
RECURSIVE argExtreme(_, _)
argExtreme(x, reduceType) ==
    IF Len(x) = 1 THEN x[1]
    ELSE LET rest == argExtreme(Tail(x), reduceType)
         IN  IF argBetter(reduceType, rest, x[1]) THEN rest ELSE x[1]

\* C11: argMax (argMin) along the innermost axis writes, for each output
\* element, the index of a maximum (minimum) value along that axis, for every
\* interleaving of the workgroup's threads in which barrier() is the only
\* synchronization.  (The code refutes this.)
C11_ArgMinMaxWritesExtremeIndex ==
    (kern.phase = "running" /\ kern.result # -1) =>
        kern.x[kern.result + 1] = argExtreme(kern.x, kern.reduceType)

(***************************************************************************)
(* The backend operations besides batchMatMul: reshape and conv2d, in the  *)
(* specification SpecOps, which extends the calls of Spec with them.       *)
(***************************************************************************)
\* The shapes a tensor is reshaped to.
ReshapeShapes == {<<4>>, <<2, 2>>, <<1, 4, 4>>}

\* reshape(x, shape): Tensor.make(shape, {dataId: x.dataId}, x.dtype) makes a
\* Tensor object on x's data id and registers that id, which register skips
\* when tensorMap has it.  The returned tensor is observed in lastOp.
Reshape(x, shape) ==
    /\ tensors[x] # NoTensor
    /\ tensorMap' = registerMap(tensorMap, x, shape, tensors[x].dtype)
    /\ glBuffers' = registerBuffers(tensorMap, glBuffers, x, shape, tensors[x].dtype)
    /\ ssbBinding' = registerBinding(tensorMap, ssbBinding, x)
    /\ lastOp' = [BaseOp("reshape", x) EXCEPT
                    !.shape = shape, !.dtype = tensors[x].dtype,
                    !.created = IF tensorMap[x].has THEN {} ELSE {x},
                    !.bound = ~tensorMap[x].has]
    /\ UNCHANGED <<tensors, uniformLive, binaryCache, compiled, failedKeys, kern>>

(***************************************************************************)
(* conv2d with Conv2DMMProgram (CONV2D_WORK_PER_THREAD other than -1).     *)
(***************************************************************************)
\* Shapes of the rank-4 tensors conv2d is called on in SpecOps.
ConvShapes == {<<1, 1, 1, 1>>, <<1, 2, 2, 1>>}

\* Values of the CONV2D_WORK_PER_THREAD flag that select Conv2DMMProgram.
ConvWorkPerThreadFlags == {0, 2}

\* The Conv2DInfo records the frontend computes for a 1x1 filter with stride
\* 1 and 'VALID' padding: the output has the input's shape.
ConvInfos ==
    { [dataFormat |-> dataFormat, dilationHeight |-> dh, dilationWidth |-> dw,
       inShape |-> inShape, filterShape |-> <<1, 1, 1, 1>>, outShape |-> inShape,
       filterHeight |-> 1, filterWidth |-> 1, padType |-> "VALID",
       strideHeight |-> 1, strideWidth |-> 1] :
      dataFormat \in {"channelsLast", "channelsFirst"},
      dh \in {1, 2}, dw \in {1, 2}, inShape \in ConvShapes }

\* The error Conv2DMMProgram's constructor throws ("none" when it returns).
Conv2DMMProgramError(convInfo) ==
    IF convInfo.dataFormat # "channelsLast" THEN "TODO: NCHW is unimplemented"
    ELSE IF ~(convInfo.dilationHeight = 1 /\ convInfo.dilationWidth = 1)
    THEN "TODO: Dilation is unimplemented"
    ELSE "none"

Conv2DMMProgram(convInfo, workPerThread) ==
    LET layout == [x |-> <<1>>, y |-> <<2>>, z |-> <<0>>]
        wgs == <<16, 16, 1>>
        elementsPerThread == IF workPerThread = 0 THEN <<1, 1, 1>>
                             ELSE <<workPerThread, workPerThread, 1>>
        matMulOutShape == <<convInfo.outShape[1],
                            convInfo.outShape[2] * convInfo.outShape[3],
                            convInfo.outShape[4]>>
    IN  [ name |-> "Conv2DMMProgram",
          outputShape |-> convInfo.outShape,
          hasLayout |-> TRUE,
          dispatchLayout |-> layout,
          workGroupSize |-> wgs,
          dispatch |-> computeDispatch(layout, matMulOutShape, wgs, elementsPerThread),
          variableNames |-> <<"x", "W">>,
          uniforms |-> <<"ivec2 filterDims, pad, stride;">>,
          isPacked |-> FALSE,
          userCode |-> (IF workPerThread = 0 THEN <<"\n", "makeMatMulSource()">>
                        ELSE <<"\n", "makeMatMulPackedSource(">> \o ToStr(workPerThread)
                             \o <<")">>)
                       \o <<"coordIsValid", "mm_readA", "mm_readB", "mm_write",
                            "main{mm_matMul(outShape[3],filterDims*xShape[3],outShape[1]*outShape[2])}">> ]

Conv2d(x, filter, convInfo, workPerThread, driver) ==
    /\ tensors[x] # NoTensor /\ tensors[filter] # NoTensor
    /\ tensors[x].shape = convInfo.inShape
    /\ tensors[filter].shape = convInfo.filterShape
    /\ FreshIds # {}
    /\ LET xT == tensors[x]
           fT == tensors[filter]
           o == CHOOSE id \in FreshIds : IsNextFresh(id)
           outT == [shape |-> convInfo.outShape, dtype |-> xT.dtype]
           \* Tensor.make(convInfo.outShape, {}, x.dtype, this)
           tm1 == registerMap(tensorMap, o, outT.shape, outT.dtype)
           bufs1 == registerBuffers(tensorMap, glBuffers, o, outT.shape, outT.dtype)
           bind1 == registerBinding(tensorMap, ssbBinding, o)
           \* new Conv2DMMProgram(convInfo, workPerThread)
           ctorErr == Conv2DMMProgramError(convInfo)
           program == Conv2DMMProgram(convInfo, workPerThread)
           \* compileAndRun(program, [x, filter], output, dimensions)
           bufferShapes == <<xT.shape, fT.shape, outT.shape>>
           key == makeShaderKey(program, Ranks(bufferShapes))
           inputsRegistered == tm1[x].has /\ tm1[filter].has
           inputsData == <<[dtype |-> tm1[x].dtype, shape |-> xT.shape,
                            name |-> program.variableNames[1]],
                           [dtype |-> tm1[filter].dtype, shape |-> fT.shape,
                            name |-> program.variableNames[2]]>>
           hit == cacheHit(binaryCache, key)
           cerr == compileProgramError(program, inputsData, outT, driver)
           op0 == [BaseOp("conv2d", o) EXCEPT
                     !.shape = outT.shape, !.dtype = outT.dtype,
                     !.created = {o}, !.bound = TRUE]
           op1 == [op0 EXCEPT
                     !.program = program, !.ranks = Ranks(bufferShapes),
                     !.key = key, !.unregistered = ~inputsRegistered]
           bind2 == bindBufferBase(bufs1, bind1, 0, tm1[x].buffer)
           bind3 == bindBufferBase(bufs1, bind2, 1, tm1[filter].buffer)
           bind4 == bindBufferBase(bufs1, bind3, 2, tm1[o].buffer)
       IN  /\ tensors' = [tensors EXCEPT ![o] = outT]
           /\ tensorMap' = tm1
           /\ kern' = kern
           /\ uniformLive' = uniformLive
           /\ IF ctorErr # "none"
              THEN /\ driver = "ok"
                   /\ lastOp' = [op0 EXCEPT !.err = ctorErr]
                   /\ glBuffers' = bufs1
                   /\ ssbBinding' = bind1
                   /\ UNCHANGED <<binaryCache, compiled, failedKeys>>
              ELSE IF ~inputsRegistered
              THEN /\ driver = "ok"
                   /\ lastOp' = [op1 EXCEPT !.err = "TypeError"]
                   /\ glBuffers' = bufs1
                   /\ ssbBinding' = bind1
                   /\ UNCHANGED <<binaryCache, compiled, failedKeys>>
              ELSE IF ~hit /\ cerr # "none"
              THEN /\ lastOp' = [op1 EXCEPT !.err = cerr, !.compileCalled = TRUE]
                   /\ glBuffers' = bufs1
                   /\ ssbBinding' = bind1
                   /\ binaryCache' = getAndSaveBinaryThrows(binaryCache, key)
                   /\ failedKeys' = failedKeys \cup {key}
                   /\ UNCHANGED compiled
              ELSE /\ hit => driver = "ok"
                   /\ binaryCache' =
                        getAndSaveBinary(binaryCache, key,
                            compileProgram(program, inputsData, outT))
                   /\ compiled' =
                        IF hit THEN compiled
                        ELSE [k \in DOMAIN compiled \cup {key} |->
                                 IF k \in DOMAIN compiled
                                 THEN compiled[k] + (IF k = key THEN 1 ELSE 0)
                                 ELSE 1]
                   /\ failedKeys' = failedKeys
                   \* makeUniforms, and destroyBuffer(uniformBuffer) after the dispatch
                   /\ ssbBinding' = bind4
                   /\ glBuffers' = dispatchCompute(bufs1, bind4, key)
                   /\ lastOp' = [op1 EXCEPT
                                   !.hit = hit, !.compileCalled = ~hit,
                                   !.dispatched = TRUE,
                                   !.source = makeShader(inputsData, outT, program),
                                   !.onReleased =
                                       \/ ~IsLive(bufs1, tm1[x].buffer)
                                       \/ ~IsLive(bufs1, tm1[filter].buffer)]

\* The calls around reshape and conv2d: register, disposeData, batchMatMul
\* (without transposes, which Spec covers), reshape, and conv2d on operands
\* registered with rank-4 shapes.
NextOps ==
    \/ \E id \in DataIds, shape \in Shapes, dtype \in DTypes :
          Budget /\ Register(id, shape, dtype)
    \/ \E id \in DataIds : Budget /\ DisposeData(id)
    \/ \E a \in DataIds, b \in DataIds,
          w \in WorkPerThreadFlags, driver \in DriverOutcomes :
          Budget /\ BatchMatMul(a, b, FALSE, FALSE, w, driver)
    \/ \E x \in DataIds, shape \in ReshapeShapes : Budget /\ Reshape(x, shape)
    \/ \E id \in DataIds, shape \in ConvShapes, dtype \in DTypes :
          Budget /\ Register(id, shape, dtype)
    \/ \E x \in DataIds, filter \in DataIds, convInfo \in ConvInfos,
          w \in ConvWorkPerThreadFlags, driver \in DriverOutcomes :
          Budget /\ Conv2d(x, filter, convInfo, w, driver)

SpecOps == Init /\ [][NextOps]_vars

ConvUnsupported(convInfo) ==
    \/ convInfo.dataFormat # "channelsLast"
    \/ convInfo.dilationHeight # 1
    \/ convInfo.dilationWidth # 1

\* C14: conv2d called with an unsupported configuration (data format other
\* than channelsLast, or a dilation other than 1) fails with an error at that
\* call, before any output buffer is registered, any shader compiled or any
\* dispatch issued: tensorMap, the device buffers and the compile cache are
\* as they were before the call.  (The code refutes this.)
C14_UnsupportedConvFailsBeforeEffects ==
    [][ \A x \in DataIds, filter \in DataIds, convInfo \in ConvInfos,
           w \in ConvWorkPerThreadFlags :
           (Budget /\ Conv2d(x, filter, convInfo, w, "ok") /\ ConvUnsupported(convInfo)) =>
               /\ lastOp'.err # "none"
               /\ ~lastOp'.compileCalled /\ ~lastOp'.dispatched
               /\ tensorMap' = tensorMap
               /\ glBuffers' = glBuffers
               /\ binaryCache' = binaryCache ]_vars

(***************************************************************************)
(* fromPixels.  An image source has a kind, a width, a height and its RGBA *)
(* bytes (row-major, 4 per pixel); for PixelData and ImageData the bytes   *)
(* are the field 'data', for the HTML elements they are what drawImage     *)
(* would paint.  The 2D context the backend keeps (fromPixels2DContext) is *)
(* a canvas: NoContext until it is created.                                *)
(***************************************************************************)
\* Number of fromPixels calls in one session.
MaxPixelCalls == 2

PixelKinds == {"PixelData", "ImageData", "HTMLVideoElement",
               "HTMLImageElement", "HTMLCanvasElement", "null"}

\* <<width, height>> of the sources.
PixelSizes == {<<1, 1>>, <<2, 1>>, <<1, 2>>}

PixelSeeds == {0, 1}

\* Opaque pixels with distinct colour bytes.
PixelBytes(w, h, seed) ==
    [i \in 1..(4 * w * h) |-> IF i % 4 = 0 THEN 255 ELSE 10 * i + seed]

PixelSources ==
    { [kind |-> kind, width |-> size[1], height |-> size[2],
       data |-> PixelBytes(size[1], size[2], seed)] :
      kind \in PixelKinds, size \in PixelSizes, seed \in PixelSeeds }

NoContext == [width |-> 0, height |-> 0, data |-> <<>>]

\* document.createElement('canvas').getContext('2d') with the canvas resized
\* to width x height: transparent black.
createContext(width, height) ==
    [width |-> width, height |-> height,
     data |-> [i \in 1..(4 * width * height) |-> 0]]

\* drawImage(pixels, 0, 0, pixels.width, pixels.height): the part of the
\* source that falls on the canvas replaces the canvas pixels.
drawImage(ctx, pixels) ==
    [ctx EXCEPT !.data =
        [i \in 1..(4 * ctx.width * ctx.height) |->
            LET p == (i - 1) \div 4
                col == p % ctx.width
                row == p \div ctx.width
            IN  IF col < pixels.width /\ row < pixels.height
                THEN pixels.data[4 * (row * pixels.width + col) + ((i - 1) % 4) + 1]
                ELSE ctx.data[i]]]

\* getImageData(0, 0, width, height).data: the canvas pixels of the
\* rectangle, transparent black outside the canvas.
getImageData(ctx, width, height) ==
    [i \in 1..(4 * width * height) |->
        LET p == (i - 1) \div 4
            col == p % width
            row == p \div width
        IN  IF col < ctx.width /\ row < ctx.height
            THEN ctx.data[4 * (row * ctx.width + col) + ((i - 1) % 4) + 1]
            ELSE 0]

\* The channel selection loop: pixelArray[floor(i / 4) * numChannels + i % 4]
\* = imageData[i] for every i with i % 4 < numChannels, in a zero-filled
\* Uint8Array of the given length (a store past its end is dropped).
selectChannels(imageData, length, numChannels) ==
    [j \in 1..length |->
        LET i == 4 * ((j - 1) \div numChannels) + ((j - 1) % numChannels)
        IN  IF i < Len(imageData) THEN imageData[i + 1] ELSE 0]

\* The outcome of fromPixels up to 'let pixelArray': the error thrown or the
\* image data, the source after the reassignment 'pixels = canvas', and the
\* 2D context after the call.
fromPixelsImageData(ctx, pixels, isBrowser) ==
    LET isElement == pixels.kind \in {"HTMLVideoElement", "HTMLImageElement",
                                      "HTMLCanvasElement"}
        ctx1 == IF pixels.kind = "HTMLVideoElement" /\ ctx = NoContext
                THEN createContext(pixels.width, pixels.height) ELSE ctx
        ctx2 == IF pixels.kind = "HTMLVideoElement" THEN drawImage(ctx1, pixels)
                ELSE ctx1
        \* pixels = this.fromPixels2DContext.canvas
        pixels2 == IF pixels.kind = "HTMLVideoElement"
                   THEN [kind |-> "HTMLCanvasElement", width |-> ctx2.width,
                         height |-> ctx2.height, data |-> ctx2.data]
                   ELSE pixels
    IN  IF pixels.kind = "null"
        THEN [err |-> "pixels can not be null", ctx |-> ctx,
              pixels |-> pixels, imageData |-> <<>>]
        ELSE IF ~isBrowser \/ ~isElement
        THEN [err |-> "none", ctx |-> ctx, pixels |-> pixels,
              imageData |-> IF isElement THEN <<>> ELSE pixels.data]
        ELSE IF ctx2 = NoContext
        THEN \* this.fromPixels2DContext is undefined: getImageData of it
             [err |-> "TypeError", ctx |-> ctx2, pixels |-> pixels2,
              imageData |-> <<>>]
        ELSE [err |-> "none", ctx |-> ctx2, pixels |-> pixels2,
              imageData |-> getImageData(ctx2, pixels2.width, pixels2.height)]

InitPixels ==
    /\ BackendInit
    /\ kern = [phase |-> "pixels", ctx |-> NoContext, pixels |-> NoContext,
               numChannels |-> 0, isBrowser |-> FALSE, out |-> 0]

FromPixels(pixels, numChannels, isBrowser) ==
    /\ kern.phase = "pixels"
    /\ calls < MaxPixelCalls /\ calls' = calls + 1
    /\ FreshIds # {}
    /\ ~isBrowser => pixels.kind \in {"PixelData", "null"}
    /\ LET got == fromPixelsImageData(kern.ctx, pixels, isBrowser)
           outShape == <<pixels.height, pixels.width, numChannels>>
           pixelArray == IF numChannels # 4
                         THEN selectChannels(got.imageData,
                                  got.pixels.width * got.pixels.height * numChannels,
                                  numChannels)
                         ELSE got.imageData
           o == CHOOSE id \in FreshIds : IsNextFresh(id)
           \* makeOutputArray(outShape, 'int32'): Tensor.make registers it
           tm1 == registerMap(tensorMap, o, outShape, "int32")
           bufs1 == registerBuffers(tensorMap, glBuffers, o, outShape, "int32")
           bind1 == registerBinding(tensorMap, ssbBinding, o)
           \* write(output.dataId, Int32Array.from(pixelArray))
           bind2 == bindBuffer(bufs1, bind1, tm1[o].buffer)
       IN  /\ kern' = [kern EXCEPT !.ctx = got.ctx, !.pixels = pixels,
                                   !.numChannels = numChannels,
                                   !.isBrowser = isBrowser,
                                   !.out = IF got.err = "none" THEN o ELSE 0]
           /\ IF got.err # "none"
              THEN /\ lastOp' = [BaseOp("fromPixels", 0) EXCEPT !.err = got.err]
                   /\ UNCHANGED <<tensors, tensorMap, glBuffers, ssbBinding>>
              ELSE /\ tensors' = [tensors EXCEPT
                                    ![o] = [shape |-> outShape, dtype |-> "int32"]]
                   /\ tensorMap' = [tm1 EXCEPT ![o].values = pixelArray]
                   /\ ssbBinding' = bind2
                   /\ glBuffers' = bufferSubData(bufs1, bind2, pixelArray)
                   /\ lastOp' = [BaseOp("fromPixels", o) EXCEPT
                                   !.shape = outShape, !.dtype = "int32",
                                   !.values = pixelArray,
                                   !.created = {o}, !.bound = TRUE]
    /\ UNCHANGED <<uniformLive, binaryCache, compiled, failedKeys>>

NextPixels ==
    \E pixels \in PixelSources, numChannels \in 1..4, isBrowser \in BOOLEAN :
        FromPixels(pixels, numChannels, isBrowser)

SpecPixels == InitPixels /\ [][NextPixels]_vars

\* The bytes the tensor is to hold: channel c of pixel p is source byte
\* 4 * p + c.
PixelExpected(pixels, numChannels) ==
    [j \in 1..(pixels.width * pixels.height * numChannels) |->
        pixels.data[4 * ((j - 1) \div numChannels) + ((j - 1) % numChannels) + 1]]

\* C13: fromPixels on an RGBA source of width w and height h with
\* numChannels n in 1..3 writes an int32 tensor of shape [h, w, n] whose
\* element at flat index p*n + c equals source byte 4*p + c; with n = 4 the
\* written values are the source bytes in order; the data is uploaded by
\* write and no shader is compiled or dispatched.  (The code refutes this.)
C13_FromPixelsWritesSelectedChannels ==
    (lastOp.op = "fromPixels" /\ kern.pixels.kind # "null") =>
        /\ lastOp.err = "none"
        /\ tensors[kern.out] = [shape |-> <<kern.pixels.height, kern.pixels.width,
                                            kern.numChannels>>,
                                dtype |-> "int32"]
        /\ glBuffers[tensorMap[kern.out].buffer].data =
              WriteData(PixelExpected(kern.pixels, kern.numChannels), ZeroData, TRUE)
        /\ ~lastOp.compileCalled /\ ~lastOp.dispatched
        /\ binaryCache = [k \in NoKeys |-> <<>>]

(***************************************************************************)
(* webgl2compute_util.computeDispatch as it behaves on every layout: the   *)
(* layout is a JavaScript object, so an axis may hold an empty array or be *)
(* absent.  arrayProduct throws on an empty array, and reading .map of an  *)
(* absent axis throws a TypeError; the array literal evaluates x, y, z in  *)
(* order, so the first failing axis decides the error.                     *)
(***************************************************************************)
DispatchAxes == <<"x", "y", "z">>

arrayProductThrows(arr) == Len(arr) = 0

computeDispatchAxisError(layout, axis, outputShape) ==
    IF axis \notin DOMAIN layout
    THEN "TypeError: Cannot read property 'map' of undefined"
    ELSE IF arrayProductThrows(LayoutDims(layout[axis], outputShape))
    THEN "Cannot compute product of empty array."
    ELSE "none"

computeDispatchError(layout, outputShape) ==
    LET ex == computeDispatchAxisError(layout, "x", outputShape)
        ey == computeDispatchAxisError(layout, "y", outputShape)
        ez == computeDispatchAxisError(layout, "z", outputShape)
    IN  IF ex # "none" THEN ex ELSE IF ey # "none" THEN ey ELSE ez

\* The value or the exception of one call.
computeDispatchCall(layout, outputShape, workGroupSize, elementsPerThread) ==
    LET err == computeDispatchError(layout, outputShape)
    IN  [err |-> err,
         dispatch |-> IF err = "none"
                      THEN computeDispatch(layout, outputShape, workGroupSize,
                                           elementsPerThread)
                      ELSE <<>>]

\* The arguments the calls are made with.
DispatchDims == {1, 3, 5}
DispatchMaxRank == 3
DispatchShapes ==
    UNION { [1..r -> DispatchDims] : r \in 1..DispatchMaxRank }
DispatchWorkGroupSizes == {<<1, 1, 1>>, <<2, 2, 1>>, <<16, 4, 1>>, <<64, 1, 1>>}
DispatchElementsPerThread == {<<1, 1, 1>>, <<2, 2, 1>>, <<1, 8, 3>>}

\* The dimensions (0-based) an assignment of dimensions to axes gives one axis.
DispatchAxisOf(assign, axis) ==
    LET onAxis(d) == assign[d + 1] = axis
    IN  SelectSeq([i \in 1..Len(assign) |-> i - 1], onAxis)

\* Every layout that assigns each dimension of a rank-r shape to one axis;
\* an axis left without dimensions is an empty array, or is left out.
DispatchLayoutsOf(r) ==
    LET full(assign) == [axis \in {"x", "y", "z"} |-> DispatchAxisOf(assign, axis)]
        sparse(assign) ==
            [axis \in {a \in {"x", "y", "z"} : Len(DispatchAxisOf(assign, a)) > 0}
                |-> DispatchAxisOf(assign, axis)]
    IN  { full(assign) : assign \in [1..r -> {"x", "y", "z"}] }
        \cup { sparse(assign) : assign \in [1..r -> {"x", "y", "z"}] }

\* axis_util.computeOutAndReduceShapes(inputShape, [axis])[0], and the
\* constructor's replacement of a rank-0 output shape by [1].
ArgOutputShape(inputShape, axis) ==
    LET out == [i \in 1..(Len(inputShape) - 1) |->
                   IF i <= axis THEN inputShape[i] ELSE inputShape[i + 1]]
    IN  IF Len(out) = 0 THEN <<1>> ELSE out

AllDims(outputShape) == [i \in 1..Len(outputShape) |-> i - 1]

InitDispatch ==
    /\ BackendInit
    /\ kern \in
         { [phase |-> "dispatch", call |-> "computeDispatch", done |-> FALSE,
            inputShape |-> outputShape, axis |-> 0,
            outputShape |-> outputShape, layout |-> layout,
            workGroupSize |-> workGroupSize,
            elementsPerThread |-> elementsPerThread,
            err |-> "none", dispatch |-> <<>>] :
           outputShape \in DispatchShapes,
           layout \in UNION { DispatchLayoutsOf(r) : r \in 1..DispatchMaxRank },
           workGroupSize \in DispatchWorkGroupSizes,
           elementsPerThread \in DispatchElementsPerThread }
         \cup
         { [phase |-> "dispatch", call |-> call, done |-> FALSE,
            inputShape |-> inputShape, axis |-> axis,
            outputShape |-> <<>>, layout |-> NoLayout,
            workGroupSize |-> <<1, 1, 1>>, elementsPerThread |-> <<1, 1, 1>>,
            err |-> "none", dispatch |-> <<>>] :
           call \in {"ArgMinMaxProgram", "UnaryOpProgram"},
           inputShape \in DispatchShapes, axis \in 0..(DispatchMaxRank - 1) }
    /\ kern.call = "computeDispatch" =>
           \A a \in DOMAIN kern.layout : \A i \in 1..Len(kern.layout[a]) :
               kern.layout[a][i] < Len(kern.outputShape)
    /\ kern.call # "computeDispatch" => kern.axis < Len(kern.inputShape)

\* One call of computeDispatch with explicit arguments.
ComputeDispatch ==
    /\ kern.phase = "dispatch" /\ kern.call = "computeDispatch" /\ ~kern.done
    /\ LET r == computeDispatchCall(kern.layout, kern.outputShape,
                                    kern.workGroupSize, kern.elementsPerThread)
       IN  kern' = [kern EXCEPT !.done = TRUE, !.err = r.err,
                                !.dispatch = r.dispatch]
    /\ UNCHANGED backendVars

\* new ArgMinMaxProgram(inputShape, axis, reduceType): the dispatch is
\* computed from {x: [], y: all output dims} with the default workGroupSize
\* and elementsPerThread of computeDispatch.
NewArgMinMaxProgram ==
    /\ kern.phase = "dispatch" /\ kern.call = "ArgMinMaxProgram" /\ ~kern.done
    /\ LET outputShape == ArgOutputShape(kern.inputShape, kern.axis)
           layout == [x |-> <<>>, y |-> AllDims(outputShape)]
           r == computeDispatchCall(layout, outputShape, <<1, 1, 1>>, <<1, 1, 1>>)
       IN  kern' = [kern EXCEPT
                      !.done = TRUE, !.outputShape = outputShape,
                      !.layout = layout,
                      !.workGroupSize =
                          <<xThreads(kern.inputShape[kern.axis + 1]), 1, 1>>,
                      !.err = r.err, !.dispatch = r.dispatch]
    /\ UNCHANGED backendVars

\* new UnaryOpProgram(op, outputShape): layout {x: all output dims},
\* workGroupSize [64, 1, 1].
NewUnaryOpProgram ==
    /\ kern.phase = "dispatch" /\ kern.call = "UnaryOpProgram" /\ ~kern.done
    /\ LET outputShape == kern.inputShape
           layout == [x |-> AllDims(outputShape)]
           r == computeDispatchCall(layout, outputShape, <<64, 1, 1>>, <<1, 1, 1>>)
       IN  kern' = [kern EXCEPT
                      !.done = TRUE, !.outputShape = outputShape,
                      !.layout = layout, !.workGroupSize = <<64, 1, 1>>,
                      !.err = r.err, !.dispatch = r.dispatch]
    /\ UNCHANGED backendVars

NextDispatch ==
    \/ ComputeDispatch
    \/ NewArgMinMaxProgram
    \/ NewUnaryOpProgram

SpecDispatch == InitDispatch /\ [][NextDispatch]_vars

\* The product of the output sizes of the dimensions a layout assigns to an
\* axis; an axis with no dimension, or an absent axis, has the product 1.
AssignedProduct(layout, axis, outputShape) ==
    IF axis \notin DOMAIN layout THEN 1
    ELSE IF Len(layout[axis]) = 0 THEN 1
    ELSE arrayProduct(LayoutDims(layout[axis], outputShape))

DispatchCountIsCeiling(a) ==
    LET P == AssignedProduct(kern.layout, DispatchAxes[a], kern.outputShape)
        g == kern.workGroupSize[a] * kern.elementsPerThread[a]
    IN  /\ kern.dispatch[a] * g >= P
        /\ (kern.dispatch[a] - 1) * g < P

\* C15: for every output shape, every layout that gives each dimension to at
\* most one axis, and every positive workGroupSize and elementsPerThread,
\* computeDispatch returns a triple whose count on each axis is the ceiling of
\* the axis's product of assigned output sizes over
\* workGroupSize[axis] * elementsPerThread[axis].
C15_DispatchCountsAreCeilings ==
    (/\ kern.phase = "dispatch" /\ kern.call = "computeDispatch" /\ kern.done
     /\ DOMAIN kern.layout = {"x", "y", "z"}) =>
        /\ kern.err = "none"
        /\ Len(kern.dispatch) = 3
        /\ \A a \in 1..3 : DispatchCountIsCeiling(a)

\* The part of C15 that the code satisfies: on layouts whose three axes each
\* hold at least one dimension the counts are the ceilings.
DispatchCeilingsOnAssignedAxes ==
    (/\ kern.phase = "dispatch" /\ kern.call = "computeDispatch" /\ kern.done
     /\ DOMAIN kern.layout = {"x", "y", "z"}
     /\ \A a \in 1..3 : Len(kern.layout[DispatchAxes[a]]) > 0) =>
        /\ kern.err = "none"
        /\ \A a \in 1..3 : DispatchCountIsCeiling(a)

DispatchAssignedAxesReached ==
    /\ kern.phase = "dispatch" /\ kern.call = "computeDispatch" /\ kern.done
    /\ DOMAIN kern.layout = {"x", "y", "z"}
    /\ \A a \in 1..3 : Len(kern.layout[DispatchAxes[a]]) > 0
    /\ kern.dispatch = <<2, 1, 1>>
    /\ kern.workGroupSize = <<2, 2, 1>>

DispatchAxisUnassigned(a) ==
    \/ DispatchAxes[a] \notin DOMAIN kern.layout
    \/ Len(kern.layout[DispatchAxes[a]]) = 0

\* C16: an axis whose layout entry is empty or absent counts as a product of
\* 1, so its dispatch count is ceil(1 / (workGroupSize * elementsPerThread));
\* the descriptors ArgMinMaxProgram and UnaryOpProgram build with such a
\* layout get a dispatch triple and are constructed.
C16_EmptyAxisCountsAsOne ==
    (kern.phase = "dispatch" /\ kern.done /\
     \E a \in 1..3 : DispatchAxisUnassigned(a)) =>
        /\ kern.err = "none"
        /\ Len(kern.dispatch) = 3
        /\ \A a \in 1..3 :
              DispatchAxisUnassigned(a) =>
                  kern.dispatch[a] =
                      CeilDiv(1, IF kern.call = "computeDispatch"
                                 THEN kern.workGroupSize[a] * kern.elementsPerThread[a]
                                 ELSE 1)

(***************************************************************************)
(* The workgroup-size choosers.  The source holds two definitions of       *)
(* webgl2compute_util.computeWorkGroupSize: the else-if chain modelled by  *)
(* computeWorkGroupSize above, and a chain of independent ifs, each of     *)
(* which assigns x again; MultiplyProgram.getWorkGroupXSize returns from   *)
(* the first test that holds.                                              *)
(***************************************************************************)
computeWorkGroupSizeIfs(outputShape) ==
    LET size == sizeFromShape(outputShape)
        x0 == 16
        x1 == IF size > 512 THEN 512 ELSE x0
        x2 == IF size > 256 THEN 256 ELSE x1
        x3 == IF size > 128 THEN 128 ELSE x2
        x4 == IF size > 64 THEN 64 ELSE x3
        x5 == IF size > 32 THEN 32 ELSE x4
        x6 == IF size > 16 THEN 16 ELSE x5
    IN  <<x6, 1, 1>>

getWorkGroupXSize(outputShape) ==
    LET size == sizeFromShape(outputShape)
    IN  IF size > 512 THEN 512
        ELSE IF size > 256 THEN 256
        ELSE IF size > 128 THEN 128
        ELSE IF size > 64 THEN 64
        ELSE IF size > 32 THEN 32
        ELSE IF size > 16 THEN 16
        ELSE 16

WorkGroupLengths ==
    {1, 16, 17, 32, 33, 64, 65, 128, 129, 256, 257, 512, 513, 600}
WorkGroupShapes ==
    { <<n>> : n \in WorkGroupLengths }
      \cup { <<m, n>> : m \in {2, 3}, n \in WorkGroupLengths }
WorkGroupDefs == {"elseIf", "ifs", "multiply"}

InitWorkGroup ==
    /\ BackendInit
    /\ kern \in { [phase |-> "workGroupSize", outputShape |-> outputShape,
                   x |-> [d \in WorkGroupDefs |-> 0]] :
                  outputShape \in WorkGroupShapes }

ComputeWorkGroupSize ==
    /\ kern.phase = "workGroupSize" /\ kern.x["elseIf"] = 0
    /\ kern' = [kern EXCEPT !.x["elseIf"] =
                                computeWorkGroupSize(kern.outputShape)[1]]
    /\ UNCHANGED backendVars

ComputeWorkGroupSizeIfs ==
    /\ kern.phase = "workGroupSize" /\ kern.x["ifs"] = 0
    /\ kern' = [kern EXCEPT !.x["ifs"] =
                                computeWorkGroupSizeIfs(kern.outputShape)[1]]
    /\ UNCHANGED backendVars

GetWorkGroupXSize ==
    /\ kern.phase = "workGroupSize" /\ kern.x["multiply"] = 0
    /\ kern' = [kern EXCEPT !.x["multiply"] =
                                getWorkGroupXSize(kern.outputShape)]
    /\ UNCHANGED backendVars

NextWorkGroup ==
    \/ ComputeWorkGroupSize
    \/ ComputeWorkGroupSizeIfs
    \/ GetWorkGroupXSize

SpecWorkGroup == InitWorkGroup /\ [][NextWorkGroup]_vars

\* The descending threshold ladder: the largest of 512, 256, 128, 64, 32
\* that size exceeds, and 16 when it exceeds none.
ThresholdLadder(size) ==
    LET above == {t \in {32, 64, 128, 256, 512} : size > t}
    IN  IF above = {} THEN 16
        ELSE CHOOSE t \in above : \A u \in above : u <= t

\* C17: the x returned by each definition is read off the threshold ladder
\* (size 1 gives 16, size 600 gives 512), so it is non-decreasing in the
\* size, and the definitions return the same x for every size.
C17_WorkGroupSizeFollowsLadder ==
    kern.phase = "workGroupSize" =>
        \A d \in WorkGroupDefs :
            kern.x[d] # 0 =>
                /\ kern.x[d] = ThresholdLadder(sizeFromShape(kern.outputShape))
                /\ \A e \in WorkGroupDefs : kern.x[e] # 0 => kern.x[e] = kern.x[d]

\* What holds of the else-if chain and of getWorkGroupXSize alone.
WorkGroupElseIfFollowsLadder ==
    kern.phase = "workGroupSize" =>
        \A d \in {"elseIf", "multiply"} :
            kern.x[d] # 0 =>
                /\ kern.x[d] = ThresholdLadder(sizeFromShape(kern.outputShape))
                /\ \A s \in WorkGroupShapes :
                      sizeFromShape(s) <= sizeFromShape(kern.outputShape) =>
                          /\ computeWorkGroupSize(s)[1] <= kern.x[d]
                          /\ getWorkGroupXSize(s) <= kern.x[d]

(***************************************************************************)
(* compileAndRun: the packing of the shape uniforms.  bufferShapes is the  *)
(* list of the input shapes followed by the output shape.  Two revisions   *)
(* are in the source: the rank-indexed base alignment (general) and the    *)
(* rule that pads only before a rank-3 shape that follows a rank-3 shape   *)
(* (simple).  Both append the program's own uniforms afterwards.  Ranks    *)
(* above 4 fail the general revision's assert and are not packed.          *)
(***************************************************************************)
\* Variant: a rank-3 shape aligned to its own length.
baseAlignmentOwnLength(rank) == IF rank = 0 THEN 1 ELSE rank

baseAlignment(rank) ==
    CASE rank = 0 -> 1
      [] rank = 1 -> 1
      [] rank = 2 -> 2
      [] rank = 3 -> 4
      [] rank = 4 -> 4

\* Variant: no padding at all.
uniformPaddingNone(currentOffset, alignment) == 0

\* Math.ceil(currentOffset / baseAlignment) * baseAlignment - currentOffset
uniformPadding(currentOffset, alignment) ==
    CeilDiv(currentOffset, alignment) * alignment - currentOffset

Zeros(n) == [p \in 1..n |-> 0]

\* The forEach of the general revision from shape i on; starts collects the
\* length of dimUniforms at the moment each shape is pushed.
RECURSIVE packDimUniforms(_, _, _, _, _)
packDimUniforms(bufferShapes, i, dimUniforms, currentOffset, starts) ==
    IF i > Len(bufferShapes)
    THEN [dimUniforms |-> dimUniforms, starts |-> starts]
    ELSE LET d == IF Len(bufferShapes[i]) = 0 THEN <<1>> ELSE bufferShapes[i]
             padding == uniformPadding(currentOffset, baseAlignment(Len(d)))
             padded == dimUniforms \o Zeros(padding)
         IN  packDimUniforms(bufferShapes, i + 1, padded \o d,
                             currentOffset + Len(d) + padding,
                             Append(starts, Len(padded)))

\* The forEach of the simple revision.
RECURSIVE packDimUniformsSimple(_, _, _, _)
packDimUniformsSimple(bufferShapes, i, dimUniforms, starts) ==
    IF i > Len(bufferShapes)
    THEN [dimUniforms |-> dimUniforms, starts |-> starts]
    ELSE LET d == bufferShapes[i]
             padded == IF Len(d) = 3 /\ i > 1 /\ Len(bufferShapes[i - 1]) = 3
                       THEN Append(dimUniforms, 0)
                       ELSE dimUniforms
         IN  packDimUniformsSimple(bufferShapes, i + 1, padded \o d,
                                   Append(starts, Len(padded)))

\* if (programUniforms) dimUniforms = dimUniforms.concat(programUniforms)
concatProgramUniforms(packed, programUniforms) ==
    [packed EXCEPT !.dimUniforms =
        IF programUniforms.given THEN @ \o programUniforms.values ELSE @]

MaxUniformShapes == 4
UniformShapes ==
    {<<>>, <<5>>, <<2, 3>>, <<2, 3, 4>>, <<1, 1, 1>>, <<2, 3, 4, 5>>}
UniformShapeLists ==
    UNION { [1..n -> UniformShapes] : n \in 1..MaxUniformShapes }
ProgramUniformOptions ==
    { [given |-> FALSE, values |-> <<>>], [given |-> TRUE, values |-> <<>>],
      [given |-> TRUE, values |-> <<7>>], [given |-> TRUE, values |-> <<7, 0, 9>>] }

InitUniforms ==
    /\ BackendInit
    /\ kern \in { [phase |-> "uniforms", bufferShapes |-> bufferShapes,
                   programUniforms |-> programUniforms,
                   general |-> <<>>, simple |-> <<>>] :
                  bufferShapes \in UniformShapeLists,
                  programUniforms \in ProgramUniformOptions }

\* The packing done by one compileAndRun of the general revision; the same
\* list may be packed again by a second call.
PackUniforms ==
    /\ kern.phase = "uniforms" /\ Len(kern.general) < 2
    /\ kern' = [kern EXCEPT !.general =
           Append(@, concatProgramUniforms(
                         packDimUniforms(kern.bufferShapes, 1, <<>>, 0, <<>>),
                         kern.programUniforms))]
    /\ UNCHANGED backendVars

\* The packing done by one compileAndRun of the simple revision.
PackUniformsSimple ==
    /\ kern.phase = "uniforms" /\ Len(kern.simple) < 1
    /\ kern' = [kern EXCEPT !.simple =
           Append(@, concatProgramUniforms(
                         packDimUniformsSimple(kern.bufferShapes, 1, <<>>, <<>>),
                         kern.programUniforms))]
    /\ UNCHANGED backendVars

NextUniforms ==
    \/ PackUniforms
    \/ PackUniformsSimple

SpecUniforms == InitUniforms /\ [][NextUniforms]_vars

\* The components compileAndRun emits for a shape: rank 0 is the value 1.
EmittedShape(d) == IF Len(d) = 0 THEN <<1>> ELSE d

\* The rank-indexed base alignment as the specification states it.
RankAlignment(rank) == IF rank <= 1 THEN 1 ELSE IF rank = 2 THEN 2 ELSE 4

\* The end (exclusive, 0-based) of shape i in a packing.
ShapeEnd(pack, shapes, i) == pack.starts[i] + Len(EmittedShape(shapes[i]))

WellPacked(pack, shapes, programUniforms) ==
    LET n == Len(shapes)
        data == pack.dimUniforms
        extra == IF programUniforms.given THEN programUniforms.values ELSE <<>>
    IN  /\ Len(pack.starts) = n
        /\ \A i \in 1..n :
              /\ pack.starts[i] % RankAlignment(Len(shapes[i])) = 0
              /\ pack.starts[i] >= (IF i = 1 THEN 0 ELSE ShapeEnd(pack, shapes, i - 1))
              /\ pack.starts[i] - (IF i = 1 THEN 0 ELSE ShapeEnd(pack, shapes, i - 1))
                     < RankAlignment(Len(shapes[i]))
              /\ \A p \in (IF i = 1 THEN 0 ELSE ShapeEnd(pack, shapes, i - 1))
                           .. (pack.starts[i] - 1) : data[p + 1] = 0
              /\ \A c \in 1..Len(EmittedShape(shapes[i])) :
                    data[pack.starts[i] + c] = EmittedShape(shapes[i])[c]
        /\ Len(data) = ShapeEnd(pack, shapes, n) + Len(extra)
        /\ \A c \in 1..Len(extra) : data[ShapeEnd(pack, shapes, n) + c] = extra[c]

\* C18: in the data the general revision packs, every shape starts at a
\* multiple of its base alignment, the slots skipped to get there hold 0,
\* the shapes come in list order, the program uniforms follow the last shape
\* directly, and packing the same list again gives the same data.
C18_ShapesPackedAtBaseAlignment ==
    kern.phase = "uniforms" =>
        /\ \A k \in 1..Len(kern.general) :
              WellPacked(kern.general[k], kern.bufferShapes, kern.programUniforms)
        /\ Len(kern.general) = 2 =>
              kern.general[1].dimUniforms = kern.general[2].dimUniforms

C18_Witness ==
    /\ kern.phase = "uniforms"
    /\ kern.bufferShapes = <<<<2, 3>>, <<>>, <<2, 3, 4>>, <<2, 3, 4, 5>>>>
    /\ kern.programUniforms.values = <<7, 0, 9>>
    /\ Len(kern.general) = 2
    /\ kern.general[2].dimUniforms =
           <<2, 3, 1, 0, 2, 3, 4, 0, 2, 3, 4, 5, 7, 0, 9>>

\* The end (exclusive, 0-based) of shape i in a packing of the simple
\* revision, which emits a rank-0 shape as no component at all.
SimpleShapeEnd(pack, shapes, i) == pack.starts[i] + Len(shapes[i])

Rank3AfterRank3(shapes, i) == Len(shapes[i]) = 3 /\ Len(shapes[i - 1]) = 3

\* C19: under the general rule exactly one zero slot lies between a rank-3
\* shape and a rank-3 shape that immediately follows it, wherever in the list
\* they are; wherever the simple rule pads, the general rule pads by exactly
\* one slot; and on lists of rank-3 shapes only the two revisions pack
\* identical data.
C19_Rank3PairPadsOneSlot ==
    kern.phase = "uniforms" =>
        /\ \A k \in 1..Len(kern.general) : \A i \in 2..Len(kern.bufferShapes) :
              Rank3AfterRank3(kern.bufferShapes, i) =>
                  /\ kern.general[k].starts[i] =
                         ShapeEnd(kern.general[k], kern.bufferShapes, i - 1) + 1
                  /\ kern.general[k].dimUniforms[kern.general[k].starts[i]] = 0
        /\ (Len(kern.general) > 0 /\ Len(kern.simple) > 0) =>
              /\ \A i \in 2..Len(kern.bufferShapes) :
                    kern.simple[1].starts[i] >
                        SimpleShapeEnd(kern.simple[1], kern.bufferShapes, i - 1) =>
                    kern.general[1].starts[i] =
                        ShapeEnd(kern.general[1], kern.bufferShapes, i - 1) + 1
              /\ (\A i \in 1..Len(kern.bufferShapes) : Len(kern.bufferShapes[i]) = 3) =>
                    kern.general[1].dimUniforms = kern.simple[1].dimUniforms

C19_Witness ==
    /\ kern.phase = "uniforms"
    /\ kern.bufferShapes = <<<<2, 3, 4>>, <<1, 1, 1>>, <<2, 3, 4>>>>
    /\ kern.programUniforms.values = <<7>>
    /\ Len(kern.general) > 0 /\ Len(kern.simple) > 0
    /\ kern.simple[1].dimUniforms = <<2, 3, 4, 0, 1, 1, 1, 0, 2, 3, 4, 7>>
    /\ kern.general[1].starts = <<0, 4, 8>>

(***************************************************************************)
(* The coordinate helpers of the generated shader, by what they compute.   *)
(* getOutputCoords is the function generateGetOutputCoords emits for a     *)
(* dispatch axis: one assigned dimension is the invocation id itself,      *)
(* several are peeled off the id by dividing by their strides, the most    *)
(* significant first.  symbolicallyComputeStrides is in shader_util, which *)
(* is not part of the source tree at hand; it is taken as the row-major    *)
(* strides over the assigned dimensions.  getFlatIndex is the overload     *)
(* family of SAMPLING_SNIPPETS.  Coordinates are sequences d0, d1, ...     *)
(***************************************************************************)
symbolicallyComputeStrides(arr, outShape) ==
    [j \in 1..(Len(arr) - 1) |->
        arrayProduct([k \in 1..(Len(arr) - j) |-> outShape[arr[j + k] + 1]])]

RECURSIVE gatherDimensions(_, _, _, _, _)
gatherDimensions(arr, strides, j, index, d) ==
    LET dj == index \div strides[j]
        d1 == [d EXCEPT ![arr[j] + 1] = dj]
    IN  IF j = Len(strides)
        THEN [d1 EXCEPT ![arr[j + 1] + 1] = index - dj * strides[j]]
        ELSE gatherDimensions(arr, strides, j + 1, index - dj * strides[j], d1)

\* The coordinates for the dimensions arr assigned to dispatch axis i, from
\* gl_GlobalInvocationID.
getOutputCoords(arr, i, outShape, gl_GlobalInvocationID) ==
    LET d == [k \in 1..Len(arr) |-> 0]
    IN  IF Len(arr) = 1
        THEN [d EXCEPT ![arr[1] + 1] = gl_GlobalInvocationID[i + 1]]
        ELSE gatherDimensions(arr, symbolicallyComputeStrides(arr, outShape), 1,
                              gl_GlobalInvocationID[i + 1], d)

\* Variant: the rank-3 and rank-4 overloads scale by shape.x.
getFlatIndexByFirstExtent(coords, shape) ==
    CASE Len(coords) = 1 -> coords[1]
      [] Len(coords) = 2 -> coords[1] * shape[1] + coords[2]
      [] Len(coords) = 3 ->
            coords[1] * shape[1] * shape[3] + coords[2] * shape[3] + coords[3]
      [] Len(coords) = 4 ->
            coords[1] * shape[1] * shape[3] * shape[4]
              + coords[2] * shape[3] * shape[4] + coords[3] * shape[4] + coords[4]

getFlatIndex(coords, shape) ==
    CASE Len(coords) = 1 -> coords[1]
      [] Len(coords) = 2 -> coords[1] * shape[2] + coords[2]
      [] Len(coords) = 3 ->
            coords[1] * shape[2] * shape[3] + coords[2] * shape[3] + coords[3]
      [] Len(coords) = 4 ->
            coords[1] * shape[2] * shape[3] * shape[4]
              + coords[2] * shape[3] * shape[4] + coords[3] * shape[4] + coords[4]

CoordMaxDim == 3
CoordShapes == UNION { [1..r -> 1..CoordMaxDim] : r \in 1..4 }

InvocationId(axis, id) == [a \in 1..3 |-> IF a = axis + 1 THEN id ELSE 0]

InitCoords ==
    /\ BackendInit
    /\ kern \in { [phase |-> "coords", outShape |-> outShape, axis |-> axis,
                   id |-> 0, pc |-> "coords", coords |-> <<>>, flat |-> -1] :
                  outShape \in CoordShapes, axis \in 0..2 }

\* One invocation of the dispatch runs getOutputCoords().
GetOutputCoords(id) ==
    /\ kern.phase = "coords" /\ kern.pc = "coords"
    /\ id < sizeFromShape(kern.outShape)
    /\ kern' = [kern EXCEPT
                  !.id = id, !.pc = "flat",
                  !.coords = getOutputCoords(AllDims(kern.outShape), kern.axis,
                                 kern.outShape, InvocationId(kern.axis, id))]
    /\ UNCHANGED backendVars

\* The invocation flattens its coordinates against the output shape.
GetFlatIndex ==
    /\ kern.phase = "coords" /\ kern.pc = "flat"
    /\ kern' = [kern EXCEPT !.pc = "done",
                            !.flat = getFlatIndex(kern.coords, kern.outShape)]
    /\ UNCHANGED backendVars

NextCoords ==
    \/ \E id \in 0..(CoordMaxDim * CoordMaxDim * CoordMaxDim * CoordMaxDim - 1) :
          GetOutputCoords(id)
    \/ GetFlatIndex

SpecCoords == InitCoords /\ [][NextCoords]_vars

CoordsOf(shape) ==
    { c \in [1..Len(shape) -> 0..(CoordMaxDim - 1)] :
        \A k \in 1..Len(shape) : c[k] < shape[k] }

Decompose(shape, axis, id) ==
    getOutputCoords(AllDims(shape), axis, shape, InvocationId(axis, id))

\* C20: with all dimensions of a rank 1 to 4 shape assigned in order to one
\* dispatch axis, the coordinates getOutputCoords produces for invocation i
\* lie within the shape, getFlatIndex of them is i, and the decomposition is
\* one-to-one from the invocation ids onto the coordinates of the shape.
C20_CoordsRoundTrip ==
    kern.phase = "coords" =>
        /\ kern.pc # "coords" =>
              /\ kern.coords \in CoordsOf(kern.outShape)
              /\ \A j \in 0..(sizeFromShape(kern.outShape) - 1) :
                    j # kern.id => Decompose(kern.outShape, kern.axis, j) # kern.coords
        /\ kern.pc = "done" => kern.flat = kern.id
        /\ (kern.pc = "done" /\ kern.id = 0) =>
              \A c \in CoordsOf(kern.outShape) :
                  \E j \in 0..(sizeFromShape(kern.outShape) - 1) :
                      Decompose(kern.outShape, kern.axis, j) = c

C20_Witness ==
    /\ kern.phase = "coords" /\ kern.pc = "done"
    /\ kern.outShape = <<2, 3, 2, 3>>
    /\ kern.id = 29
    /\ kern.coords = <<1, 1, 1, 2>>
    /\ kern.flat = 29

(***************************************************************************)
(* The accessor get<Name>AtOutCoords, by what the generated GLSL computes. *)
(* coords are the output coordinates getOutputCoords() returned (an int    *)
(* when the output rank is below 2, an ivec otherwise).  The result is the *)
(* flat index read from the input buffer, or the error with which the      *)
(* generated text fails to compile: GLSL ES has no implicit conversion     *)
(* from float to int, no constructor without arguments, and no indexing    *)
(* of a scalar or past the end of a vector.                                *)
(***************************************************************************)
ZeroBroadcast(coords, broadcastDims, rankDiff) ==
    [k \in 1..Len(coords) |->
        IF \E b \in 1..Len(broadcastDims) : broadcastDims[b] + rankDiff = k
        THEN 0 ELSE coords[k]]

UnpackCoords(coords, inRank, rankDiff) ==
    [i \in 1..inRank |-> coords[i + rankDiff]]

\* part_011: the revision that unpacks by 'outRank > 1'.
samplerAtOutputCoords(inShape, outShape, coords) ==
    LET inRank == Len(inShape)
        outRank == Len(outShape)
        broadcastDims == getBroadcastDims(inShape, outShape)
        rankDiff == outRank - inRank
        zeroed == IF inRank > 0 THEN ZeroBroadcast(coords, broadcastDims, rankDiff)
                  ELSE coords
    IN  IF inRank > 0 /\ outRank < 2 /\ Len(broadcastDims) >= 1
        THEN [err |-> "compile: 'coords = 0.;' assigns a float to an int",
              index |-> -1]
        ELSE IF outRank < 2 /\ inRank > 0
        THEN [err |-> "none", index |-> getFlatIndex(zeroed, inShape)]
        ELSE IF outRank > 1
        THEN IF inRank = 0
             THEN [err |-> "compile: 'int()' is a constructor without arguments",
                   index |-> -1]
             ELSE [err |-> "none",
                   index |-> getFlatIndex(UnpackCoords(zeroed, inRank, rankDiff),
                                          inShape)]
        ELSE [err |-> "none", index |-> getFlatIndex(zeroed, <<1>>)]

\* shader_preprocessor.ts: the revision that unpacks by 'inRank > 1'.
samplerAtOutputCoordsEarlier(inShape, outShape, coords) ==
    LET inRank == Len(inShape)
        outRank == Len(outShape)
        broadcastDims == getBroadcastDims(inShape, outShape)
        rankDiff == outRank - inRank
        zeroed == IF inRank > 0 THEN ZeroBroadcast(coords, broadcastDims, rankDiff)
                  ELSE coords
    IN  IF inRank > 0 /\ outRank < 2 /\ Len(broadcastDims) >= 1
        THEN [err |-> "compile: 'coords = 0.;' assigns a float to an int",
              index |-> -1]
        ELSE IF outRank < 2 /\ inRank > 0
        THEN [err |-> "none", index |-> getFlatIndex(zeroed, inShape)]
        ELSE IF inRank > 1
        THEN [err |-> "none",
              index |-> getFlatIndex(UnpackCoords(zeroed, inRank, rankDiff),
                                     inShape)]
        ELSE IF outRank < 2
        THEN [err |-> "compile: 'coords[i]' indexes an int", index |-> -1]
        ELSE IF rankDiff >= outRank
        THEN [err |-> "compile: 'coords[i]' indexes past the vector",
              index |-> -1]
        ELSE [err |-> "none", index |-> zeroed[rankDiff + 1]]

SamplerDims == {1, 2}
SamplerMaxRank == 4
SamplerOutShapes ==
    UNION { [1..r -> SamplerDims] : r \in 1..SamplerMaxRank } \cup {<<4, 3>>}

\* The input shapes that broadcast to outShape: a suffix of it in which any
\* dimension may be 1.
SamplerInShapes(outShape) ==
    UNION { { s \in [1..r -> SamplerDims \cup {3}] :
                \A i \in 1..r :
                    s[i] = 1 \/ s[i] = outShape[i + Len(outShape) - r] } :
            r \in 0..Len(outShape) }

SamplerCoords(outShape) ==
    { c \in [1..Len(outShape) -> 0..3] : \A k \in 1..Len(outShape) : c[k] < outShape[k] }

InitSampler ==
    /\ BackendInit
    /\ kern \in { [phase |-> "sampler", inShape |-> inShape,
                   outShape |-> outShape, coords |-> <<>>, revision |-> "none",
                   err |-> "none", index |-> -1] :
                  outShape \in SamplerOutShapes,
                  inShape \in UNION { SamplerInShapes(o) : o \in SamplerOutShapes } }
    /\ kern.inShape \in SamplerInShapes(kern.outShape)

\* One invocation calls the accessor of the part_011 revision.
SampleAtOutCoords(coords) ==
    /\ kern.phase = "sampler" /\ kern.revision = "none"
    /\ LET r == samplerAtOutputCoords(kern.inShape, kern.outShape, coords)
       IN  kern' = [kern EXCEPT !.coords = coords, !.revision = "part_011",
                                !.err = r.err, !.index = r.index]
    /\ UNCHANGED backendVars

\* One invocation calls the accessor of the shader_preprocessor.ts revision.
SampleAtOutCoordsEarlier(coords) ==
    /\ kern.phase = "sampler" /\ kern.revision = "none"
    /\ LET r == samplerAtOutputCoordsEarlier(kern.inShape, kern.outShape, coords)
       IN  kern' = [kern EXCEPT !.coords = coords, !.revision = "earlier",
                                !.err = r.err, !.index = r.index]
    /\ UNCHANGED backendVars

NextSampler ==
    \/ \E coords \in SamplerCoords(kern.outShape) : SampleAtOutCoords(coords)
    \/ \E coords \in SamplerCoords(kern.outShape) : SampleAtOutCoordsEarlier(coords)

SpecSampler == InitSampler /\ [][NextSampler]_vars

\* The input coordinates the accessor is to read: the trailing inRank output
\* coordinates with every broadcast dimension set to 0.
BroadcastCoords(inShape, outShape, coords) ==
    LET rankDiff == Len(outShape) - Len(inShape)
    IN  [i \in 1..Len(inShape) |->
            IF inShape[i] = 1 /\ outShape[i + rankDiff] > 1 THEN 0
            ELSE coords[i + rankDiff]]

RowMajorIndex(coords, shape) ==
    IF Len(coords) = 0 THEN 0 ELSE getFlatIndex(coords, shape)

\* C21: for broadcast-compatible shapes with input rank <= output rank <= 4
\* the accessor reads the input element at the trailing output coordinates
\* with the broadcast dimensions zeroed.
C21_AccessorReadsBroadcastElement ==
    (kern.phase = "sampler" /\ kern.revision # "none") =>
        /\ kern.err = "none"
        /\ kern.index = RowMajorIndex(
               BroadcastCoords(kern.inShape, kern.outShape, kern.coords),
               kern.inShape)

\* What the code satisfies: inputs of rank >= 1 under outputs of rank >= 2.
SamplerReadsBroadcastElementAboveRank1 ==
    (/\ kern.phase = "sampler" /\ kern.revision # "none"
     /\ Len(kern.inShape) >= 1 /\ Len(kern.outShape) >= 2) =>
        /\ kern.err = "none"
        /\ kern.index = RowMajorIndex(
               BroadcastCoords(kern.inShape, kern.outShape, kern.coords),
               kern.inShape)

SamplerExampleReached ==
    /\ kern.phase = "sampler" /\ kern.revision = "part_011"
    /\ kern.inShape = <<1, 3>> /\ kern.outShape = <<4, 3>>
    /\ kern.coords = <<3, 2>> /\ kern.index = 2

\* C22: every uniform buffer compileAndRun allocates through makeUniforms is
\* released after the call's dispatch, with or without program uniforms, so
\* after any sequence of calls no uniform buffer is live.
C22_NoUniformBufferStaysLive == uniformLive = 0

\* What the code satisfies: a call that passes program uniforms (conv2d)
\* leaves the number of live uniform buffers as it found it.
UniformsReleasedWhenProgramUniformsGiven ==
    [][lastOp'.op = "conv2d" => uniformLive' = uniformLive]_vars

(***************************************************************************)
(* webgl2compute_program: the compile diagnostic.  Strings are sequences   *)
(* of characters.  lineNumberRegex is one module-level RegExp object with  *)
(* the g flag: exec starts its search at the object's lastIndex, sets      *)
(* lastIndex to the end of the match it finds, and sets it to 0 when it    *)
(* finds none.                                                             *)
(***************************************************************************)
IsDigit(c) == \E k \in 1..10 : DigitChars[k] = c

DigitValue(c) == (CHOOSE k \in 1..10 : DigitChars[k] = c) - 1

RECURSIVE DigitRun(_, _)
DigitRun(s, p) ==
    IF p <= Len(s) /\ IsDigit(s[p]) THEN 1 + DigitRun(s, p + 1) ELSE 0

RECURSIVE ParseInt(_)
ParseInt(digits) ==
    IF Len(digits) = 0 THEN 0
    ELSE ParseInt(SubSeq(digits, 1, Len(digits) - 1)) * 10
           + DigitValue(digits[Len(digits)])

ErrorPrefix == <<"E", "R", "R", "O", "R", ":", " ">>

\* /ERROR: [0-9]+:([0-9]+):/ matched at position p (1-based): the length of
\* the match and the captured group, or length 0.
lineNumberRegexAt(s, p) ==
    LET q == p + Len(ErrorPrefix)
        n1 == DigitRun(s, q)
        r == q + n1 + 1
        n2 == DigitRun(s, r)
    IN  IF /\ q + 3 <= Len(s)
           /\ SubSeq(s, p, q - 1) = ErrorPrefix
           /\ n1 > 0 /\ q + n1 <= Len(s) /\ s[q + n1] = ":"
           /\ n2 > 0 /\ r + n2 <= Len(s) /\ s[r + n2] = ":"
        THEN [len |-> r + n2 - p + 1, group |-> SubSeq(s, r, r + n2 - 1)]
        ELSE [len |-> 0, group |-> <<>>]

\* lineNumberRegex.exec(s) with the object's lastIndex (0-based).
lineNumberRegexExec(s, lastIndex) ==
    LET hits == {p \in (lastIndex + 1)..Len(s) : lineNumberRegexAt(s, p).len > 0}
    IN  IF hits = {}
        THEN [matched |-> FALSE, group |-> <<>>, lastIndex |-> 0]
        ELSE LET p == CHOOSE h \in hits : \A g \in hits : h <= g
                 m == lineNumberRegexAt(s, p)
             IN  [matched |-> TRUE, group |-> m.group,
                  lastIndex |-> p - 1 + m.len]

\* util.rightPad(a, size)
rightPad(a, size) ==
    IF size <= Len(a) THEN a ELSE a \o [k \in 1..(size - Len(a)) |-> " "]

\* shaderInfoLog.split('\n')[0]
FirstLine(s) ==
    LET ends == {p \in 1..Len(s) : s[p] = "\n"}
    IN  IF ends = {} THEN s
        ELSE SubSeq(s, 1, (CHOOSE p \in ends : \A q \in ends : p <= q) - 1)

SeqMax(lens) ==
    IF Len(lens) = 0 THEN 0
    ELSE CHOOSE m \in {lens[k] : k \in 1..Len(lens)} :
            \A k \in 1..Len(lens) : lens[k] <= m

\* logShaderSourceAndInfoLog(shaderSource, shaderInfoLog): what it writes to
\* the console, and the lastIndex it leaves.  shaderLines is
\* shaderSource.split('\n').
logShaderSourceAndInfoLog(shaderLines, shaderInfoLog, lastIndex) ==
    LET res == lineNumberRegexExec(shaderInfoLog, lastIndex)
        lineNumber == ParseInt(res.group)
        pad == Len(ToStr(Len(shaderLines))) + 2
        linesWithLineNumbers ==
            [k \in 1..Len(shaderLines) |-> rightPad(ToStr(k), pad) \o shaderLines[k]]
        maxLineLength ==
            SeqMax([k \in 1..Len(shaderLines) |-> Len(linesWithLineNumbers[k])])
    IN  IF ~res.matched
        THEN [lastIndex |-> res.lastIndex,
              console |-> [parsed |-> FALSE, before |-> <<>>,
                           info |-> shaderInfoLog, highlighted |-> <<>>,
                           after |-> shaderLines]]
        ELSE [lastIndex |-> res.lastIndex,
              console |->
                [parsed |-> TRUE,
                 before |-> SubSeq(linesWithLineNumbers, 1, lineNumber - 1),
                 info |-> FirstLine(shaderInfoLog),
                 highlighted |-> rightPad(linesWithLineNumbers[lineNumber],
                                          maxLineLength),
                 after |-> SubSeq(linesWithLineNumbers, lineNumber + 1,
                                  Len(shaderLines))]]

\* The sources and the info logs of the failing compiles.
DiagSources ==
    { << <<"a">>, <<"b", "c">>, <<"d">> >>, << <<"x", "y">>, <<"z">> >>,
      << <<"m">>, <<"n">> >> }
ErrorLine(n) == ErrorPrefix \o <<"0", ":">> \o ToStr(n) \o <<":", " ", "e", "\n">>
DiagInfoLogs ==
    { ErrorLine(1), ErrorLine(2),
      <<"W", "\n">> \o ErrorLine(2),
      <<"W", "W", "\n">> \o ErrorLine(1),
      ErrorLine(1) \o ErrorLine(2),
      ErrorLine(2) \o <<"W", "\n">> \o ErrorLine(1),
      <<"n", "o", "\n">> }
MaxCompileFailures == 4

InitDiag ==
    /\ BackendInit
    /\ kern = [phase |-> "diag", lastIndex |-> 0, failures |-> 0,
               source |-> <<>>, infoLog |-> <<>>,
               console |-> [parsed |-> FALSE, before |-> <<>>, info |-> <<>>,
                            highlighted |-> <<>>, after |-> <<>>]]

\* compileProgram when COMPILE_STATUS is false: the diagnostic is logged and
\* the error is thrown.
CompileFails(source, infoLog) ==
    /\ kern.phase = "diag" /\ kern.failures < MaxCompileFailures
    /\ LET r == logShaderSourceAndInfoLog(source, infoLog, kern.lastIndex)
       IN  kern' = [kern EXCEPT !.lastIndex = r.lastIndex,
                                !.failures = @ + 1,
                                !.source = source, !.infoLog = infoLog,
                                !.console = r.console]
    /\ UNCHANGED backendVars

NextDiag ==
    \E source \in DiagSources, infoLog \in DiagInfoLogs :
        CompileFails(source, infoLog)

SpecDiag == InitDiag /\ [][NextDiag]_vars

HasErrorLine(infoLog) ==
    \E p \in 1..Len(infoLog) : lineNumberRegexAt(infoLog, p).len > 0

\* C23: whenever the info log of a failed compile contains 'ERROR: n:line:',
\* the diagnostic shows the numbered source with the error line highlighted,
\* and it is the diagnostic a first failure would give for the same source
\* and info log.
C23_DiagnosticIndependentOfHistory ==
    (kern.phase = "diag" /\ kern.failures > 0 /\ HasErrorLine(kern.infoLog)) =>
        /\ kern.console.parsed
        /\ kern.console =
               logShaderSourceAndInfoLog(kern.source, kern.infoLog, 0).console

\* What the code satisfies: the first failure of a process.
FirstDiagnosticShowsErrorLine ==
    (kern.phase = "diag" /\ kern.failures = 1 /\ HasErrorLine(kern.infoLog)) =>
        /\ kern.console.parsed
        /\ Len(kern.console.before) + 1 + Len(kern.console.after) = Len(kern.source)

(***************************************************************************)
(* The output elements each workgroup of a batchMatMul dispatch stores.    *)
(* The grid is dispatch[0] x dispatch[1] x dispatch[2] workgroups of       *)
(* 16 x 16 threads; mm_write stores at row * dimBOuter + col.  In          *)
(* MatMulProgram the extents are read from the shape uniforms; in          *)
(* MatMulPackedProgram they are the uniforms dimAOuter and dimBOuter, for  *)
(* which batchMatMul uploads no value, so they hold whatever the uniform   *)
(* block holds past the shapes.  Workgroups are taken in index order.      *)
(***************************************************************************)
MaxBatch == 2
MatWriteDims == {1, 17}
MatWritePrograms == {"MatMulProgram", "MatMulPackedProgram"}
MatWriteWorkPerThread == 2

InitMatWrite ==
    /\ BackendInit
    /\ kern \in { [phase |-> "made", program |-> program,
                   outShape |-> <<batch, M, N>>,
                   dimAOuter |-> dimAOuter, dimBOuter |-> dimBOuter,
                   workPerThread |-> IF program = "MatMulProgram" THEN 1
                                     ELSE MatWriteWorkPerThread,
                   dispatch |-> <<0, 0, 0>>, wg |-> 0,
                   writers |-> [i \in 0..(17 * 17 - 1) |-> {}]] :
                  program \in MatWritePrograms, batch \in 1..MaxBatch,
                  M \in MatWriteDims, N \in MatWriteDims,
                  dimAOuter \in MatWriteDims \cup {0},
                  dimBOuter \in MatWriteDims \cup {0} }
    /\ kern.program = "MatMulProgram" =>
           kern.dimAOuter = kern.outShape[2] /\ kern.dimBOuter = kern.outShape[3]

\* The constructor of the program computes the dispatch.
MatWriteDispatch ==
    /\ kern.phase = "made"
    /\ kern' = [kern EXCEPT
                  !.phase = "running",
                  !.dispatch =
                      IF kern.program = "MatMulProgram"
                      THEN MatMulProgram(kern.outShape).dispatch
                      ELSE MatMulPackedProgram(kern.outShape,
                                               kern.workPerThread).dispatch]
    /\ UNCHANGED backendVars

\* The indices the threads of workgroup (wx, wy, wz) pass to setOutput after
\* the tile loop: gl_GlobalInvocationID.z is not used.
mm_writeIndices(k, wx, wy, wz) ==
    LET W == k.workPerThread
        Inner == 0..(W - 1)
        globalRow(ly) == (wy * MatTileSize + ly) * W
        globalCol(lx) == (wx * MatTileSize + lx) * W
    IN  { (globalRow(t[2]) + t[3]) * k.dimBOuter + (globalCol(t[1]) + t[4]) :
            t \in { u \in Local \X Local \X Inner \X Inner :
                      /\ globalCol(u[1]) + u[4] < k.dimBOuter
                      /\ globalRow(u[2]) + u[3] < k.dimAOuter } }

\* One workgroup runs to its stores.
WorkgroupStores ==
    /\ kern.phase = "running"
    /\ kern.wg < kern.dispatch[1] * kern.dispatch[2] * kern.dispatch[3]
    /\ LET wx == kern.wg % kern.dispatch[1]
           wy == (kern.wg \div kern.dispatch[1]) % kern.dispatch[2]
           wz == kern.wg \div (kern.dispatch[1] * kern.dispatch[2])
           stored == mm_writeIndices(kern, wx, wy, wz)
       IN  kern' = [kern EXCEPT
                      !.wg = kern.wg + 1,
                      !.writers = [i \in DOMAIN kern.writers |->
                                      IF i \in stored
                                      THEN kern.writers[i] \cup {<<wx, wy, wz>>}
                                      ELSE kern.writers[i]]]
    /\ UNCHANGED backendVars

NextMatWrite ==
    \/ MatWriteDispatch
    \/ WorkgroupStores

SpecMatWrite == InitMatWrite /\ [][NextMatWrite]_vars

\* C24: within one batchMatMul dispatch no output element is written by
\* threads of two different workgroups, for every batch, M and N.
C24_WorkgroupsOwnDisjointElements ==
    kern.phase = "running" =>
        \A i \in DOMAIN kern.writers : Cardinality(kern.writers[i]) <= 1

\* What the code satisfies: with a batch of 1 the workgroups' elements are
\* disjoint.
WorkgroupsDisjointForBatchOne ==
    (kern.phase = "running" /\ kern.outShape[1] = 1) =>
        \A i \in DOMAIN kern.writers : Cardinality(kern.writers[i]) <= 1

(***************************************************************************)
(* The barrier structure of the kernels that use shared memory: the tile   *)
(* loop of mm_matMul (makeMatMulSource, makeMatMulPackedSource) and the    *)
(* while loop of the arg-min/max reduction.  Threads of one workgroup run  *)
(* interleaved, a statement group at a time; barrier() is an arrival, and  *)
(* the threads leave it together once every thread of the workgroup has    *)
(* arrived.  Data is left out; each thread keeps its loop variable, its    *)
(* position relative to the output bounds, and the number of barriers it   *)
(* has executed.  For the matmul bodies the threads are a sample of the    *)
(* 256 of the workgroup.                                                   *)
(***************************************************************************)
BarrierThreads == 3
BarrierBodies == {"makeMatMulSource", "makeMatMulPackedSource", "sharedMemoryReduce"}
BarrierInner == {1, 17, 33}

BarThreads == 1..BarrierThreads

\* uint numTiles = (dimInner - 1u) / MatTileSize + 1u, for the body's tile.
barNumTiles(body, dimInner) ==
    IF body = "makeMatMulSource" THEN numTiles(dimInner)
    ELSE ((dimInner - 1) \div (MatTileSize * MatWriteWorkPerThread)) + 1

InitBarrier ==
    /\ BackendInit
    /\ kern \in { [phase |-> "barrier", body |-> body,
                   numTiles |-> barNumTiles(body, dimInner),
                   inBounds |-> inBounds,
                   pc |-> [th \in BarThreads |->
                              IF body = "sharedMemoryReduce" THEN "while" ELSE "for"],
                   t |-> [th \in BarThreads |-> 0],
                   currentSize |-> [th \in BarThreads |-> BarrierThreads],
                   waiting |-> [th \in BarThreads |-> FALSE],
                   barriers |-> [th \in BarThreads |-> 0]] :
                  body \in BarrierBodies, dimInner \in BarrierInner,
                  inBounds \in [BarThreads -> BOOLEAN] }

\* Variant: a thread outside the output bounds skips the tile loop.
tileLoopContinuesInBounds(k, th) == k.inBounds[th] /\ k.t[th] < k.numTiles

\* for (uint t = 0u; t < numTiles; t++)
tileLoopContinues(k, th) == k.t[th] < k.numTiles

\* The loads of one tile, then the first barrier() of the iteration.
BarLoadTile(th) ==
    /\ kern.phase = "barrier" /\ kern.pc[th] = "for" /\ ~kern.waiting[th]
    /\ tileLoopContinues(kern, th)
    /\ kern' = [kern EXCEPT !.pc[th] = "barrier1"]
    /\ UNCHANGED backendVars

\* The loop ends: the guarded mm_write, after which the thread is finished.
BarStore(th) ==
    /\ kern.phase = "barrier" /\ kern.pc[th] = "for" /\ ~kern.waiting[th]
    /\ ~tileLoopContinues(kern, th)
    /\ kern' = [kern EXCEPT !.pc[th] = "done"]
    /\ UNCHANGED backendVars

\* The accumulation over the tile, then the second barrier() of the iteration.
BarAccumulate(th) ==
    /\ kern.phase = "barrier" /\ kern.pc[th] = "acc" /\ ~kern.waiting[th]
    /\ kern' = [kern EXCEPT !.pc[th] = "barrier2"]
    /\ UNCHANGED backendVars

\* while (currentSize > 1u): into the body, whose first statement is barrier().
BarWhile(th) ==
    /\ kern.phase = "barrier" /\ kern.pc[th] = "while" /\ ~kern.waiting[th]
    /\ kern.currentSize[th] > 1
    /\ kern' = [kern EXCEPT !.pc[th] = "barrier0"]
    /\ UNCHANGED backendVars

\* The reads and writes of one reduction level, then
\* currentSize = DIV_CEIL(currentSize, reductionFactor).
BarReduce(th) ==
    /\ kern.phase = "barrier" /\ kern.pc[th] = "reduce" /\ ~kern.waiting[th]
    /\ kern' = [kern EXCEPT
                  !.pc[th] = "while",
                  !.currentSize[th] = DIV_CEIL(@, reductionFactor)]
    /\ UNCHANGED backendVars

\* The while loop ends: thread 0 writes the output; the thread is finished.
BarOutput(th) ==
    /\ kern.phase = "barrier" /\ kern.pc[th] = "while" /\ ~kern.waiting[th]
    /\ kern.currentSize[th] <= 1
    /\ kern' = [kern EXCEPT !.pc[th] = "done"]
    /\ UNCHANGED backendVars

\* A thread executes barrier(): it arrives and waits.
BarArrive(th) ==
    /\ kern.phase = "barrier" /\ ~kern.waiting[th]
    /\ kern.pc[th] \in {"barrier0", "barrier1", "barrier2"}
    /\ kern' = [kern EXCEPT !.waiting[th] = TRUE, !.barriers[th] = @ + 1]
    /\ UNCHANGED backendVars

\* Every thread of the workgroup has arrived: all of them go on.
BarRelease ==
    /\ kern.phase = "barrier"
    /\ \A th \in BarThreads : kern.waiting[th]
    /\ kern' = [kern EXCEPT
                  !.waiting = [th \in BarThreads |-> FALSE],
                  !.pc = [th \in BarThreads |->
                             CASE kern.pc[th] = "barrier0" -> "reduce"
                               [] kern.pc[th] = "barrier1" -> "acc"
                               [] kern.pc[th] = "barrier2" -> "for"],
                  !.t = [th \in BarThreads |->
                            IF kern.pc[th] = "barrier2" THEN kern.t[th] + 1
                            ELSE kern.t[th]]]
    /\ UNCHANGED backendVars

NextBarrier ==
    \/ \E th \in BarThreads : BarLoadTile(th)
    \/ \E th \in BarThreads : BarStore(th)
    \/ \E th \in BarThreads : BarAccumulate(th)
    \/ \E th \in BarThreads : BarWhile(th)
    \/ \E th \in BarThreads : BarReduce(th)
    \/ \E th \in BarThreads : BarOutput(th)
    \/ \E th \in BarThreads : BarArrive(th)
    \/ BarRelease

\* The scheduler keeps running the workgroup's threads while one can step.
SpecBarrier == InitBarrier /\ [][NextBarrier]_vars /\ WF_vars(NextBarrier)

BarAllDone == \A th \in BarThreads : kern.pc[th] = "done"

BarNoneStranded ==
    /\ ~(\E th \in BarThreads : kern.waiting[th] /\
             \E other \in BarThreads : kern.pc[other] = "done")
    /\ \A th \in BarThreads : \A other \in BarThreads :
          (kern.waiting[th] /\ kern.waiting[other]) => kern.pc[th] = kern.pc[other]
    /\ BarAllDone =>
          \A th \in BarThreads : kern.barriers[th] = kern.barriers[1]

\* C25: all threads of a workgroup execute the same number of barrier()
\* calls whatever their position, no thread waits at a barrier that another
\* thread never reaches, and every thread eventually finishes.
C25_BarriersUniformAndThreadsFinish ==
    [](kern.phase = "barrier" => BarNoneStranded) /\ <>BarAllDone

C25_Witness ==
    /\ kern.phase = "barrier" /\ BarAllDone
    /\ kern.body = "makeMatMulPackedSource"
    /\ ~kern.inBounds[2] /\ kern.inBounds[1]
    /\ kern.barriers[2] = 4

(***************************************************************************)
(* The rounding-up divisions of the shaders, in 32-bit unsigned            *)
(* arithmetic.  A uint is kept as its two 16-bit halves, so that values up *)
(* to 2^32 - 1 are exact.                                                  *)
(***************************************************************************)
MaxInner == 40
MaxDivisor == 4

uintOf(n) == [hi |-> n \div Pow2(16), lo |-> n % Pow2(16)]

\* x - 1u: 0u - 1u is 4294967295u.
uintMinusOne(x) ==
    IF x = 0 THEN [hi |-> Pow2(16) - 1, lo |-> Pow2(16) - 1] ELSE uintOf(x - 1)

\* u / y for a divisor below 2^15, by long division over the halves.
uintDiv(u, y) ==
    [hi |-> u.hi \div y,
     lo |-> ((u.hi % y) * Pow2(16) + u.lo) \div y]

\* u + 1u, modulo 2^32.
uintPlusOne(u) ==
    IF u.lo + 1 < Pow2(16) THEN [hi |-> u.hi, lo |-> u.lo + 1]
    ELSE [hi |-> (u.hi + 1) % Pow2(16), lo |-> 0]

\* ((x) - 1u) / (y) + 1u
uintDivCeil(x, y) == uintPlusOne(uintDiv(uintMinusOne(x), y))

\* const uint MatTileSize of the two matmul bodies.
tileSizeOf(body) ==
    IF body = "makeMatMulSource" THEN MatTileSize
    ELSE MatTileSize * MatWriteWorkPerThread

InitTiles ==
    /\ BackendInit
    /\ kern = [phase |-> "tiles", body |-> "none", x |-> 0, y |-> 1,
               value |-> uintOf(0)]

\* uint numTiles = (dimInner - 1u) / MatTileSize + 1u;
ComputeNumTiles(body, dimInner) ==
    /\ kern.phase = "tiles"
    /\ kern' = [kern EXCEPT !.body = body, !.x = dimInner, !.y = tileSizeOf(body),
                            !.value = uintDivCeil(dimInner, tileSizeOf(body))]
    /\ UNCHANGED backendVars

\* DIV_CEIL(x, y) of the arg-min/max body.
ComputeDivCeil(x, y) ==
    /\ kern.phase = "tiles"
    /\ kern' = [kern EXCEPT !.body = "DIV_CEIL", !.x = x, !.y = y,
                            !.value = uintDivCeil(x, y)]
    /\ UNCHANGED backendVars

NextTiles ==
    \/ \E body \in {"makeMatMulSource", "makeMatMulPackedSource"} :
         \E dimInner \in 0..MaxInner : ComputeNumTiles(body, dimInner)
    \/ \E x \in 0..MaxInner : \E y \in 1..MaxDivisor : ComputeDivCeil(x, y)

SpecTiles == InitTiles /\ [][NextTiles]_vars

TilesComputed == kern.phase = "tiles" /\ kern.body # "none"

\* C26: the tile count and DIV_CEIL equal ceil(x / y) for every x >= 0,
\* x = 0 included (zero tiles).
C26_DivCeilIsCeilingFromZero ==
    TilesComputed => kern.value = uintOf(CeilDiv(kern.x, kern.y))

\* For x >= 1 the unsigned expression is the ceiling.
DivCeilIsCeilingAboveZero ==
    (TilesComputed /\ kern.x >= 1) => kern.value = uintOf(CeilDiv(kern.x, kern.y))

\* dimInner = 0 gives 2^28 tiles.
ZeroInnerTileCount ==
    (TilesComputed /\ kern.body = "makeMatMulSource" /\ kern.x = 0)
        => kern.value = uintOf(numTiles(0)) /\ kern.value = [hi |-> 4096, lo |-> 0]

TilesAboveZeroReached ==
    TilesComputed /\ kern.body = "makeMatMulPackedSource" /\ kern.x = 33
                  /\ kern.value = uintOf(2)

(***************************************************************************)
(* The buffer accesses of the threads of an elementwise dispatch           *)
(* (UnaryOpProgram, BinaryOpProgram): main() of one thread at a time, with *)
(* the indices at which it reads the inputs and stores into result.        *)
(***************************************************************************)
MaxElements == 20

ElementwisePrograms == {"UnaryOpProgram", "BinaryOpProgram"}

\* main(): uint index = gl_GlobalInvocationID.x; float a = A[index];
\* (float b = B[index];) result[index] = operation(a(, b)).
elementwiseMain(program, index) ==
    [reads |-> IF program = "BinaryOpProgram"
               THEN {<<"A", index>>, <<"B", index>>} ELSE {<<"A", index>>},
     writes |-> {index}]

InitElementwise ==
    /\ BackendInit
    /\ kern \in { [phase |-> "threads", program |-> program,
                   outputShape |-> <<size>>,
                   workGroupSize |-> computeWorkGroupSize(<<size>>),
                   dispatch |-> BinaryOpProgramDispatch(<<size>>),
                   index |-> -1, reads |-> {}, writes |-> {}] :
                  program \in ElementwisePrograms, size \in 1..MaxElements }

\* One thread of the dispatch runs main().
ElementwiseThread(index) ==
    /\ kern.phase = "threads"
    /\ index < kern.dispatch[1] * kern.workGroupSize[1]
    /\ LET acc == elementwiseMain(kern.program, index)
       IN  kern' = [kern EXCEPT !.index = index,
                                !.reads = acc.reads, !.writes = acc.writes]
    /\ UNCHANGED backendVars

NextElementwise ==
    \E index \in 0..(2 * MaxElements) : ElementwiseThread(index)

SpecElementwise == InitElementwise /\ [][NextElementwise]_vars

ElementwiseThreadRan == kern.phase = "threads" /\ kern.index >= 0

\* C27: a thread of an elementwise dispatch stores only at result indices
\* below product(outputShape); a thread whose global index is at or above
\* the element count reads no input and writes nothing.
C27_SurplusThreadsTouchNoBuffer ==
    ElementwiseThreadRan =>
        /\ \A w \in kern.writes : w < sizeFromShape(kern.outputShape)
        /\ kern.index >= sizeFromShape(kern.outputShape) =>
              kern.reads = {} /\ kern.writes = {}

\* A thread below the element count stores exactly at its own index.
ElementwiseInRangeThreadWritesOwnIndex ==
    (ElementwiseThreadRan /\ kern.index < sizeFromShape(kern.outputShape)) =>
        kern.writes = {kern.index}

ElementwiseSurplusThreadReached ==
    /\ ElementwiseThreadRan /\ kern.program = "UnaryOpProgram"
    /\ kern.outputShape = <<3>> /\ kern.index = 15 /\ kern.writes = {15}

(***************************************************************************)
(* register and read over the dtypes whose elements are one byte wide as   *)
(* well as the four-byte ones, and over element counts that are and are    *)
(* not multiples of 4.                                                     *)
(***************************************************************************)
ReadDTypes == {"float32", "int32", "bool"}

ReadShapes == {<<1>>, <<3>>, <<4>>, <<5>>, <<2, 3>>, <<2, 2, 2>>}

NextReadLength ==
    \/ \E id \in DataIds, shape \in ReadShapes, dtype \in ReadDTypes :
          Budget /\ Register(id, shape, dtype)
    \/ \E id \in DataIds : Budget /\ Read(id)
    \/ \E id \in DataIds : Budget /\ DisposeData(id)

SpecReadLength == Init /\ [][NextReadLength]_vars

ReadReturned == lastOp.op = "read" /\ lastOp.err = "none"

\* C28: read(id) returns product(shape) elements, the byteSize bytes
\* recorded at register, for every dtype and shape.
C28_ReadReturnsEveryElement ==
    ReadReturned =>
        /\ lastOp.len = sizeFromShape(tensors[lastOp.id].shape)
        /\ lastOp.len * 4 >= tensorMap[lastOp.id].byteSize

\* For the four-byte dtypes read returns product(shape) elements.
ReadReturnsEveryElementOfFourByteDTypes ==
    (ReadReturned /\ tensors[lastOp.id].dtype \in {"float32", "int32"}) =>
        /\ lastOp.len = sizeFromShape(tensors[lastOp.id].shape)
        /\ lastOp.len * 4 = tensorMap[lastOp.id].byteSize

ReadOfFourByteDTypeReached ==
    /\ ReadReturned /\ tensors[lastOp.id].dtype = "int32"
    /\ tensors[lastOp.id].shape = <<2, 3>> /\ lastOp.len = 6

(***************************************************************************)
(* The pad uniform of conv2d, for the three kinds of padInfo.  The         *)
(* padInfo of a convolution is computed by the frontend; its top and left  *)
(* amounts are inputs here.                                                *)
(***************************************************************************)
MaxFilter == 3
MaxPad == 2

\* Math.floor(n / 2) for n >= 0.
FloorHalf(n) == n \div 2

\* const pad = convInfo.padInfo.type === 'VALID' ? [0, 0] : ... 'SAME' ? ... : ...
conv2dPad(convInfo) ==
    IF convInfo.padInfo.type = "VALID" THEN <<0, 0>>
    ELSE IF convInfo.padInfo.type = "SAME"
    THEN <<-FloorHalf(convInfo.filterShape[1] - 1),
           -FloorHalf(convInfo.filterShape[2] - 1)>>
    ELSE <<convInfo.padInfo.top, convInfo.padInfo.left>>

\* mm_readB: the input row (column) read for an output position and a
\* filter offset.
conv2dInputCoord(pad, out, stride, w) == pad + out * stride + w

PadInfos(fh, fw) ==
    {[type |-> "VALID", top |-> 0, left |-> 0]}
    \cup {[type |-> "SAME", top |-> t, left |-> l] :
             t \in 0..FloorHalf(fh - 1), l \in 0..FloorHalf(fw - 1)}
    \cup {[type |-> "NUMBER", top |-> t, left |-> l] : t \in 0..MaxPad, l \in 0..MaxPad}

PadConvInfos ==
    UNION { { [filterShape |-> <<fh, fw, 1, 1>>, padInfo |-> p,
                strideHeight |-> stride, strideWidth |-> stride] :
                  p \in PadInfos(fh, fw), stride \in 1..2 } :
            fh \in 1..MaxFilter, fw \in 1..MaxFilter }

InitConvPad ==
    /\ BackendInit
    /\ kern = [phase |-> "pad", convInfo |-> <<>>, pad |-> <<>>, row |-> 0, col |-> 0]

\* conv2d up to the dimensions it hands to compileAndRun, and the input
\* position the shader reads for output (out, out) at the first filter
\* offset.
Conv2dPad(convInfo, out) ==
    /\ kern.phase = "pad"
    /\ LET pad == conv2dPad(convInfo)
       IN  kern' = [kern EXCEPT
                      !.convInfo = convInfo, !.pad = pad,
                      !.row = conv2dInputCoord(pad[1], out, convInfo.strideHeight, 0),
                      !.col = conv2dInputCoord(pad[2], out, convInfo.strideWidth, 0)]
    /\ UNCHANGED backendVars

NextConvPad == \E convInfo \in PadConvInfos : \E out \in 0..1 : Conv2dPad(convInfo, out)

SpecConvPad == InitConvPad /\ [][NextConvPad]_vars

ConvPadComputed == kern.phase = "pad" /\ kern.pad # <<>>

\* C29: the two pad offsets conv2d uploads are never positive, for every
\* padding type; for explicit padding they are the negated top and left
\* amounts.
C29_PadOffsetsNeverPositive ==
    ConvPadComputed =>
        /\ kern.pad[1] <= 0 /\ kern.pad[2] <= 0
        /\ kern.convInfo.padInfo.type = "NUMBER" =>
              kern.pad = <<-kern.convInfo.padInfo.top, -kern.convInfo.padInfo.left>>

\* For 'VALID' and 'SAME' padding the offsets are not positive.
PadOffsetsNotPositiveForValidAndSame ==
    (ConvPadComputed /\ kern.convInfo.padInfo.type \in {"VALID", "SAME"}) =>
        kern.pad[1] <= 0 /\ kern.pad[2] <= 0

ConvPadSameReached ==
    /\ ConvPadComputed /\ kern.convInfo.padInfo.type = "SAME"
    /\ kern.convInfo.filterShape = <<3, 3, 1, 1>> /\ kern.pad = <<-1, -1>>
    /\ kern.row = -1

\* A browser call of fromPixels on an HTML element has returned or thrown.
FromPixelsOfElement ==
    /\ lastOp.op = "fromPixels" /\ kern.isBrowser
    /\ kern.pixels.kind \in {"HTMLVideoElement", "HTMLImageElement", "HTMLCanvasElement"}

\* C30: in a browser, fromPixels of an image or canvas element returns that
\* source's pixels whatever calls came before, and fromPixels of a video
\* reads a canvas of that video's width and height even after a video of
\* another size: the result does not depend on earlier fromPixels calls.
C30_FromPixelsIndependentOfHistory ==
    FromPixelsOfElement =>
        /\ lastOp.err = "none"
        /\ lastOp.values = PixelExpected(kern.pixels, kern.numChannels)
        /\ kern.pixels.kind = "HTMLVideoElement" =>
              kern.ctx.width = kern.pixels.width /\ kern.ctx.height = kern.pixels.height

\* The first call of a backend, given a video, returns the video's pixels
\* from a canvas of the video's size.
FirstVideoFromPixelsReturnsItsPixels ==
    (FromPixelsOfElement /\ calls = 1 /\ kern.pixels.kind = "HTMLVideoElement") =>
        /\ lastOp.err = "none"
        /\ lastOp.values = PixelExpected(kern.pixels, kern.numChannels)
        /\ kern.ctx.width = kern.pixels.width /\ kern.ctx.height = kern.pixels.height

FirstVideoFromPixelsReached ==
    /\ FromPixelsOfElement /\ calls = 1 /\ kern.pixels.kind = "HTMLVideoElement"
    /\ kern.pixels.width = 2 /\ kern.numChannels = 3 /\ Len(lastOp.values) = 6

====
